---------------------------- MODULE Spec2Model ----------------------------
(***************************************************************************)
(* The recommendation engine of the stock screener                         *)
(* (src/trading_recommendations.py) with the parts of its collaborators    *)
(* it depends on (src/enhanced_technical.py, src/ml_predictions.py).       *)
(*                                                                         *)
(* Numbers.  Python floats are modelled as exact rationals <<n, d>> with   *)
(* d > 0 in lowest terms; <<0, 0>> is NaN (every comparison with it is     *)
(* false, every arithmetic result with it is NaN).  Python dicts are       *)
(* functions over their key set, read with Get (dict.get with a default);  *)
(* a value that may be None is a record [present, d].                      *)
(***************************************************************************)
EXTENDS Integers, Sequences, FiniteSets, TLC

(***************************************************************************)
(* Rational arithmetic                                                     *)
(***************************************************************************)
Abs(i) == IF i < 0 THEN -i ELSE i

RECURSIVE GCD(_, _)
GCD(a, b) == IF b = 0 THEN a ELSE GCD(b, a % b)

NaN == <<0, 0>>

IsNaN(x) == x[2] = 0

Frac(n, d) ==
    IF d = 0 THEN NaN
    ELSE LET g == GCD(Abs(n), Abs(d))
             s == IF d < 0 THEN -1 ELSE 1
         IN  <<(s * n) \div g, (s * d) \div g>>

R(i) == <<i, 1>>

Add(x, y) == IF IsNaN(x) \/ IsNaN(y) THEN NaN
             ELSE Frac(x[1] * y[2] + y[1] * x[2], x[2] * y[2])

Sub(x, y) == IF IsNaN(x) \/ IsNaN(y) THEN NaN
             ELSE Frac(x[1] * y[2] - y[1] * x[2], x[2] * y[2])

Mul(x, y) == IF IsNaN(x) \/ IsNaN(y) THEN NaN
             ELSE Frac(x[1] * y[1], x[2] * y[2])

Div(x, y) == IF IsNaN(x) \/ IsNaN(y) THEN NaN
             ELSE Frac(x[1] * y[2], x[2] * y[1])

Lt(x, y) == ~IsNaN(x) /\ ~IsNaN(y) /\ x[1] * y[2] < y[1] * x[2]

Le(x, y) == ~IsNaN(x) /\ ~IsNaN(y) /\ x[1] * y[2] <= y[1] * x[2]

Gt(x, y) == Lt(y, x)

Ge(x, y) == Le(y, x)

\* Python's built-in min(a, b) and max(a, b): the first argument is kept
\* unless the second compares strictly smaller (larger), so a NaN second
\* argument is never chosen and a NaN first argument is always kept.
PyMin(a, b) == IF Lt(b, a) THEN b ELSE a

PyMax(a, b) == IF Gt(b, a) THEN b ELSE a

\* int(x) for a float x: truncation toward zero.
Trunc(x) == IF x[1] >= 0 THEN x[1] \div x[2] ELSE -((-x[1]) \div x[2])

(***************************************************************************)
(* Dicts and None                                                          *)
(***************************************************************************)
EmptyDict == [k \in {} |-> 0]

Get(d, k, default) == IF k \in DOMAIN d THEN d[k] ELSE default

None == [present |-> FALSE, d |-> EmptyDict]

Some(d) == [present |-> TRUE, d |-> d]

\* Python truthiness of a dict-or-None value: None and {} are falsy.
Truthy(o) == o.present /\ DOMAIN o.d # {}


(***************************************************************************)
(* TradingRecommendationEngine: the five component scores                  *)
(***************************************************************************)
\* max(0, min(100, score)), the last line of every score function.
\* A score function that forgets max(0, min(100, score)).
Clamp_unclamped(score) == score

Clamp(score) == PyMax(R(0), PyMin(R(100), score))

\* Weights that give the technical score 0.40 and so sum to 1.05.
InitialWeights_heavy ==
    [technical |-> Frac(40, 100), ml_prediction |-> Frac(25, 100),
     momentum |-> Frac(20, 100), risk |-> Frac(10, 100),
     volume |-> Frac(10, 100)]

\* self.weights as __init__ builds it.
InitialWeights ==
    [technical |-> Frac(35, 100), ml_prediction |-> Frac(25, 100),
     momentum |-> Frac(20, 100), risk |-> Frac(10, 100),
     volume |-> Frac(10, 100)]

_technical_rsi(rsi) ==
    IF Lt(rsi, R(30)) THEN 20
    ELSE IF Gt(rsi, R(70)) THEN -20
    ELSE IF Le(R(40), rsi) /\ Le(rsi, R(60)) THEN 5
    ELSE 0

_technical_macd(macd, macd_signal) ==
    IF Gt(macd, macd_signal) THEN 15 ELSE -10

_technical_trend(direction, strength) ==
    IF direction = "up" THEN Trunc(Mul(strength, R(20)))
    ELSE IF direction = "down" THEN -Trunc(Mul(strength, R(20)))
    ELSE 0

_technical_resistance(resistance_levels, current_price) ==
    IF Len(resistance_levels) > 0 /\ Gt(current_price, R(0))
    THEN LET nearest_resistance == resistance_levels[1]
             resistance_distance ==
                 Div(Sub(nearest_resistance, current_price), current_price)
         IN  IF Gt(resistance_distance, Frac(5, 100)) THEN 10
             ELSE IF Lt(resistance_distance, Frac(2, 100)) THEN -5
             ELSE 0
    ELSE 0

_technical_support(support_levels, current_price) ==
    IF Len(support_levels) > 0 /\ Gt(current_price, R(0))
    THEN LET nearest_support == support_levels[1]
             support_distance ==
                 Div(Sub(current_price, nearest_support), current_price)
         IN  IF Lt(support_distance, Frac(2, 100)) THEN 5 ELSE 0
    ELSE 0

\* The technical score before the final clamp.
_technical_raw(technical_analysis) ==
    LET basic == Get(technical_analysis.d, "basic_indicators", EmptyDict)
        trend == Get(technical_analysis.d, "trend_analysis", EmptyDict)
        sr    == Get(technical_analysis.d, "support_resistance", EmptyDict)
        current_price == Get(sr, "current_price", R(0))
    IN  50
        + _technical_rsi(Get(basic, "RSI", R(50)))
        + _technical_macd(Get(basic, "MACD", R(0)),
                          Get(basic, "MACD_Signal", R(0)))
        + _technical_trend(Get(trend, "direction", "neutral"),
                           Get(trend, "strength", Frac(1, 2)))
        + _technical_resistance(Get(sr, "resistance_levels", <<>>),
                                current_price)
        + _technical_support(Get(sr, "support_levels", <<>>), current_price)

\* The technical score without "if not technical_analysis: return 50".
_calculate_technical_score_noguard(technical_analysis) ==
    Clamp(R(_technical_raw(technical_analysis)))

_calculate_technical_score(technical_analysis) ==
    IF ~Truthy(technical_analysis) THEN R(50)
    ELSE Clamp(R(_technical_raw(technical_analysis)))

\* ml_predictions is an insertion-ordered dict: order lists its keys as
\* they were inserted, at maps each key to its entry.
EmptyPredictions == [order |-> <<>>, at |-> EmptyDict]

\* The loop "for days in sorted(keys): if days <= horizon: best = ..."
\* leaves the entry of the largest key <= horizon, or None.
\* A selection loop that stops at the first key <= horizon: the smallest.
_ml_best_key_first(ml_predictions, time_horizon_days) ==
    LET ks == {k \in DOMAIN ml_predictions.at : k <= time_horizon_days}
    IN  IF ks = {} THEN 0
        ELSE CHOOSE k \in ks : \A j \in ks : k <= j

_ml_best_key(ml_predictions, time_horizon_days) ==
    LET ks == {k \in DOMAIN ml_predictions.at : k <= time_horizon_days}
    IN  IF ks = {} THEN 0
        ELSE CHOOSE k \in ks : \A j \in ks : j <= k

_calculate_ml_score(ml_predictions, current_price, time_horizon_days) ==
    IF Len(ml_predictions.order) = 0 \/ Le(current_price, R(0)) THEN R(50)
    ELSE LET best == _ml_best_key(ml_predictions, time_horizon_days)
         IN  IF best = 0 \/ DOMAIN ml_predictions.at[best] = {} THEN R(50)
             ELSE LET best_prediction == ml_predictions.at[best]
                      predicted_price ==
                          Get(best_prediction, "predicted_price", current_price)
                      expected_return ==
                          Div(Sub(predicted_price, current_price), current_price)
                      score == Add(R(50), Mul(expected_return, R(250)))
                      confidence ==
                          Get(best_prediction, "confidence", Frac(1, 2))
                  IN  Clamp(Add(R(50), Mul(Sub(score, R(50)), confidence)))

\* technical_analysis.get(...) on None raises AttributeError.
_raises_on_none(technical_analysis) == ~technical_analysis.present

_momentum_volume(vol_trend) ==
    IF vol_trend = "increasing" THEN 10
    ELSE IF vol_trend = "decreasing" THEN -5
    ELSE 0

_momentum_ma(price_vs_sma20, price_vs_sma50) ==
    IF Gt(price_vs_sma20, R(0)) /\ Gt(price_vs_sma50, R(0)) THEN 15
    ELSE IF Gt(price_vs_sma20, R(0)) THEN 5
    ELSE IF Lt(price_vs_sma20, R(0)) /\ Lt(price_vs_sma50, R(0)) THEN -15
    ELSE 0

\* df enters only through momentum_20d, the mean of the last 20 daily
\* returns (NaN for a one-row history).  Defined when the report is not None.
_calculate_momentum_score(momentum_20d, technical_analysis) ==
    LET volume_analysis == Get(technical_analysis.d, "volume_analysis", EmptyDict)
        basic == Get(technical_analysis.d, "basic_indicators", EmptyDict)
        score == Add(Add(R(50), Mul(momentum_20d, R(1000))),
                     R(_momentum_volume(Get(volume_analysis, "volume_trend", "neutral"))
                       + _momentum_ma(Get(basic, "Price_vs_SMA20", R(0)),
                                      Get(basic, "Price_vs_SMA50", R(0)))))
    IN  Clamp(score)

\* (1 + returns).cumprod(), as a sequence.
RECURSIVE CumProd(_)
CumProd(returns) ==
    IF Len(returns) = 0 THEN <<>>
    ELSE LET n == Len(returns)
             front == CumProd(SubSeq(returns, 1, n - 1))
             prev == IF n = 1 THEN R(1) ELSE front[n - 1]
         IN  Append(front, Mul(prev, Add(R(1), returns[n])))

\* cumulative_returns.expanding().max() at position i.
RECURSIVE RollingMax(_, _)
RollingMax(cum, i) ==
    IF i = 1 THEN cum[1]
    ELSE LET m == RollingMax(cum, i - 1)
         IN  IF Gt(cum[i], m) THEN cum[i] ELSE m

\* drawdown.min() over positions 1..i; NaN for an empty series.
RECURSIVE DrawdownMin(_, _)
DrawdownMin(cum, i) ==
    IF i = 0 THEN NaN
    ELSE LET m == RollingMax(cum, i)
             dd == Div(Sub(cum[i], m), m)
             rest == DrawdownMin(cum, i - 1)
         IN  IF IsNaN(rest) \/ Lt(dd, rest) THEN dd ELSE rest

MaxDrawdown(returns) == DrawdownMin(CumProd(returns), Len(returns))

\* A volatility test that rewards a low volatility with 20 points.
_risk_volatility_generous(volatility) ==
    IF Lt(volatility, Frac(2, 10)) THEN 20
    ELSE IF Gt(volatility, Frac(5, 10)) THEN -15
    ELSE 0

_risk_volatility(volatility) ==
    IF Lt(volatility, Frac(2, 10)) THEN 10
    ELSE IF Gt(volatility, Frac(5, 10)) THEN -15
    ELSE 0

\* A Sharpe test that stops at the 0.5 band: no larger bonus above 1.0.
_risk_sharpe_flat(sharpe_ratio) ==
    IF Gt(sharpe_ratio, Frac(1, 2)) THEN 10
    ELSE IF Lt(sharpe_ratio, R(0)) THEN -20
    ELSE 0

_risk_sharpe(sharpe_ratio) ==
    IF Gt(sharpe_ratio, R(1)) THEN 20
    ELSE IF Gt(sharpe_ratio, Frac(1, 2)) THEN 10
    ELSE IF Lt(sharpe_ratio, R(0)) THEN -20
    ELSE 0

_risk_drawdown(max_drawdown) ==
    IF Gt(max_drawdown, Frac(-1, 10)) THEN 10
    ELSE IF Lt(max_drawdown, Frac(-3, 10)) THEN -15
    ELSE 0

_calculate_risk_score(volatility, sharpe_ratio, returns) ==
    Clamp(R(50 + _risk_volatility(volatility) + _risk_sharpe(sharpe_ratio)
               + _risk_drawdown(MaxDrawdown(returns))))

_volume_ratio(current_volume, avg_volume) ==
    IF Gt(avg_volume, R(0))
    THEN LET volume_ratio == Div(current_volume, avg_volume)
         IN  IF Gt(volume_ratio, R(2)) THEN 15
             ELSE IF Gt(volume_ratio, Frac(3, 2)) THEN 10
             ELSE IF Lt(volume_ratio, Frac(1, 2)) THEN -10
             ELSE 0
    ELSE 0

\* An OBV test worth 15 points either way.
_volume_obv_heavy(obv_trend) ==
    IF obv_trend = "bullish" THEN 15
    ELSE IF obv_trend = "bearish" THEN -15
    ELSE 0

_volume_obv(obv_trend) ==
    IF obv_trend = "bullish" THEN 10
    ELSE IF obv_trend = "bearish" THEN -10
    ELSE 0

\* Defined when the report is not None.
_calculate_volume_score(current_volume, avg_volume, technical_analysis) ==
    LET volume_analysis == Get(technical_analysis.d, "volume_analysis", EmptyDict)
    IN  Clamp(R(50 + _volume_ratio(current_volume, avg_volume)
                   + (IF Get(volume_analysis, "volume_breakout", FALSE)
                      THEN 20 ELSE 0)
                   + _volume_obv(Get(volume_analysis, "obv_trend", "neutral"))))

\* _calculate_scores: the five scores, or the exception the momentum and
\* volume scores raise on a None report (the technical and ML scores are
\* computed first and do not raise).
_calculate_scores(data, time_horizon_days) ==
    IF _raises_on_none(data.technical_analysis)
    THEN [raised |-> TRUE, scores |-> EmptyDict]
    ELSE [raised |-> FALSE,
          scores |->
            [technical |-> _calculate_technical_score(data.technical_analysis),
             ml_prediction |-> _calculate_ml_score(data.ml_predictions,
                                   data.current_price, time_horizon_days),
             momentum |-> _calculate_momentum_score(data.momentum_20d,
                                   data.technical_analysis),
             risk |-> _calculate_risk_score(data.volatility,
                                   data.sharpe_ratio, data.returns),
             volume |-> _calculate_volume_score(data.current_volume,
                                   data.avg_volume, data.technical_analysis)]]

(***************************************************************************)
(* TradingRecommendationEngine: target price, stop loss, reasoning and     *)
(* the final recommendation                                                *)
(***************************************************************************)
\* min(keys, key=lambda x: abs(x - horizon)): the first key, in insertion
\* order, whose distance to the horizon is minimal.
_target_best_days(ml_predictions, time_horizon_days) ==
    LET order == ml_predictions.order
        dist(k) == Abs(k - time_horizon_days)
        i == CHOOSE i \in 1..Len(order) :
                 /\ \A j \in 1..Len(order) : dist(order[i]) <= dist(order[j])
                 /\ \A j \in 1..(i - 1) : dist(order[j]) > dist(order[i])
    IN  order[i]

_target_ml(target_price, ml_predictions, current_price, time_horizon_days) ==
    IF Len(ml_predictions.order) > 0
    THEN LET best_days == _target_best_days(ml_predictions, time_horizon_days)
             ml_target == Get(ml_predictions.at[best_days], "predicted_price",
                              current_price)
         IN  Div(Add(target_price, ml_target), R(2))
    ELSE target_price

_target_projection(target_price, projections, time_horizon_days) ==
    IF Truthy(projections) /\ "ensemble" \in DOMAIN projections.d
    THEN LET ensemble_proj == projections.d["ensemble"]
         IN  IF "prices" \in DOMAIN ensemble_proj
                /\ Len(ensemble_proj["prices"]) > 0
             THEN LET days_available == Len(ensemble_proj["prices"])
                      m == IF time_horizon_days - 1 < days_available - 1
                           THEN time_horizon_days - 1
                           ELSE days_available - 1
                      \* Python index m, 0-based
                      proj_target == ensemble_proj["prices"][m + 1]
                  IN  Div(Add(target_price, proj_target), R(2))
             ELSE target_price
    ELSE target_price

_target_tilt(target_price, weighted_score) ==
    LET score_adjustment == Div(Sub(weighted_score, R(50)), R(100))
    IN  Mul(target_price, Add(R(1), Mul(score_adjustment, Frac(2, 10))))

_target_cap(target_price, technical_analysis, weighted_score) ==
    IF Truthy(technical_analysis)
    THEN LET sr == Get(technical_analysis.d, "support_resistance", EmptyDict)
             resistance_levels == Get(sr, "resistance_levels", <<>>)
         IN  IF Len(resistance_levels) > 0 /\ Gt(weighted_score, R(50))
             THEN PyMin(target_price,
                        Mul(resistance_levels[1], Frac(95, 100)))
             ELSE target_price
    ELSE target_price

\* A variant that holds the target price of a score below 45 at or below
\* the current price.
_calculate_target_price_directed(data, time_horizon_days, weighted_score) ==
    LET target_price ==
            _target_cap(
                _target_tilt(
                    _target_projection(
                        _target_ml(data.current_price, data.ml_predictions,
                                   data.current_price, time_horizon_days),
                        data.projections, time_horizon_days),
                    weighted_score),
                data.technical_analysis, weighted_score)
    IN  IF Lt(weighted_score, R(45))
        THEN PyMin(target_price, data.current_price)
        ELSE target_price

_calculate_target_price(data, time_horizon_days, weighted_score) ==
    _target_cap(
        _target_tilt(
            _target_projection(
                _target_ml(data.current_price, data.ml_predictions,
                           data.current_price, time_horizon_days),
                data.projections, time_horizon_days),
            weighted_score),
        data.technical_analysis, weighted_score)

\* np.sqrt(252) = 15.8745..., taken as the rational 127/8 = 15.875.
Sqrt252 == Frac(127, 8)

\* A variant that places the support stop 2% above the nearest support.
_stop_support_above(current_price, technical_analysis) ==
    IF Truthy(technical_analysis)
    THEN LET sr == Get(technical_analysis.d, "support_resistance", EmptyDict)
             support_levels == Get(sr, "support_levels", <<>>)
         IN  IF Len(support_levels) > 0
             THEN Mul(support_levels[1], Frac(102, 100))
             ELSE Mul(current_price, Frac(9, 10))
    ELSE Mul(current_price, Frac(9, 10))

_stop_support(current_price, technical_analysis) ==
    IF Truthy(technical_analysis)
    THEN LET sr == Get(technical_analysis.d, "support_resistance", EmptyDict)
             support_levels == Get(sr, "support_levels", <<>>)
         IN  IF Len(support_levels) > 0
             THEN Mul(support_levels[1], Frac(98, 100))
             ELSE Mul(current_price, Frac(9, 10))
    ELSE Mul(current_price, Frac(9, 10))

\* A variant that leaves out the adjustment by recommendation strength.
_calculate_stop_loss_unadjusted(data, weighted_score) ==
    LET current_price == data.current_price
        daily_vol == Div(data.volatility, Sqrt252)
        vol_stop == Mul(current_price, Sub(R(1), Mul(R(2), daily_vol)))
        support_stop == _stop_support(current_price, data.technical_analysis)
    IN  PyMax(vol_stop, support_stop)

_calculate_stop_loss(data, weighted_score) ==
    LET current_price == data.current_price
        daily_vol == Div(data.volatility, Sqrt252)
        vol_stop == Mul(current_price, Sub(R(1), Mul(R(2), daily_vol)))
        support_stop == _stop_support(current_price, data.technical_analysis)
        stop_loss == PyMax(vol_stop, support_stop)
    IN  IF Gt(weighted_score, R(70))
        THEN PyMax(stop_loss, Mul(current_price, Frac(92, 100)))
        ELSE IF Lt(weighted_score, R(30))
        THEN PyMin(stop_loss, Mul(current_price, Frac(115, 100)))
        ELSE stop_loss

_reason(score, hi, lo, bullish, bearish) ==
    IF Gt(score, R(hi)) THEN <<bullish>>
    ELSE IF Lt(score, R(lo)) THEN <<bearish>>
    ELSE <<>>

_reason_rsi(technical_analysis) ==
    IF Truthy(technical_analysis)
    THEN LET basic == Get(technical_analysis.d, "basic_indicators", EmptyDict)
             rsi == Get(basic, "RSI", R(50))
         IN  IF Gt(rsi, R(70))
             THEN <<"RSI indicates overbought conditions - consider profit taking">>
             ELSE IF Lt(rsi, R(30))
             THEN <<"RSI shows oversold conditions - potential buying opportunity">>
             ELSE <<>>
    ELSE <<>>

\* _generate_reasoning without its last "if not reasoning" step.
_generate_reasoning_nofallback(scores, data, action) ==
    _reason(Get(scores, "technical", R(50)), 65, 35,
            "Strong technical indicators support upward movement",
            "Technical indicators suggest downward pressure")
    \o _reason(Get(scores, "ml_prediction", R(50)), 60, 40,
            "Machine learning models predict positive price movement",
            "ML models indicate potential price decline")
    \o _reason(Get(scores, "momentum", R(50)), 60, 40,
            "Strong positive momentum in price and volume",
            "Negative momentum suggests caution")
    \o _reason(Get(scores, "risk", R(50)), 60, 40,
            "Favorable risk-adjusted returns profile",
            "Higher risk profile requires careful position sizing")
    \o _reason(Get(scores, "volume", R(50)), 60, 40,
            "Strong volume support confirms price movement",
            "Weak volume may limit price movement")
    \o _reason_rsi(data.technical_analysis)

\* A variant that puts the RSI call-out in front of the component
\* sentences.
_generate_reasoning_rsifirst(scores, data, action) ==
    LET reasoning ==
            _reason_rsi(data.technical_analysis)
         \o _reason(Get(scores, "technical", R(50)), 65, 35,
                    "Strong technical indicators support upward movement",
                    "Technical indicators suggest downward pressure")
         \o _reason(Get(scores, "ml_prediction", R(50)), 60, 40,
                    "Machine learning models predict positive price movement",
                    "ML models indicate potential price decline")
         \o _reason(Get(scores, "momentum", R(50)), 60, 40,
                    "Strong positive momentum in price and volume",
                    "Negative momentum suggests caution")
         \o _reason(Get(scores, "risk", R(50)), 60, 40,
                    "Favorable risk-adjusted returns profile",
                    "Higher risk profile requires careful position sizing")
         \o _reason(Get(scores, "volume", R(50)), 60, 40,
                    "Strong volume support confirms price movement",
                    "Weak volume may limit price movement")
    IN  IF Len(reasoning) = 0
        THEN <<"Mixed signals suggest a neutral stance">>
        ELSE reasoning

_generate_reasoning(scores, data, action) ==
    LET reasoning ==
            _reason(Get(scores, "technical", R(50)), 65, 35,
                    "Strong technical indicators support upward movement",
                    "Technical indicators suggest downward pressure")
         \o _reason(Get(scores, "ml_prediction", R(50)), 60, 40,
                    "Machine learning models predict positive price movement",
                    "ML models indicate potential price decline")
         \o _reason(Get(scores, "momentum", R(50)), 60, 40,
                    "Strong positive momentum in price and volume",
                    "Negative momentum suggests caution")
         \o _reason(Get(scores, "risk", R(50)), 60, 40,
                    "Favorable risk-adjusted returns profile",
                    "Higher risk profile requires careful position sizing")
         \o _reason(Get(scores, "volume", R(50)), 60, 40,
                    "Strong volume support confirms price movement",
                    "Weak volume may limit price movement")
         \o _reason_rsi(data.technical_analysis)
    IN  IF Len(reasoning) = 0
        THEN <<"Mixed signals suggest a neutral stance">>
        ELSE reasoning

\* for component, score in scores.items():
\*     weighted_score += score * self.weights.get(component, 0)
RECURSIVE _weighted_sum(_, _, _)
_weighted_sum(scores, w, components) ==
    IF components = {} THEN R(0)
    ELSE LET c == CHOOSE c \in components : TRUE
         IN  Add(Mul(scores[c], Get(w, c, R(0))),
                 _weighted_sum(scores, w, components \ {c}))

_weighted_score(scores, w) == _weighted_sum(scores, w, DOMAIN scores)

\* The thresholds compared with > instead of >=.
_action_strict(weighted_score) ==
    IF Gt(weighted_score, R(75)) THEN "STRONG BUY"
    ELSE IF Gt(weighted_score, R(60)) THEN "BUY"
    ELSE IF Gt(weighted_score, R(55)) THEN "WEAK BUY"
    ELSE IF Gt(weighted_score, R(45)) THEN "HOLD"
    ELSE IF Gt(weighted_score, R(40)) THEN "WEAK SELL"
    ELSE IF Gt(weighted_score, R(25)) THEN "SELL"
    ELSE "STRONG SELL"

\* The chain with the labels of the 60 and 55 tests swapped.
_action_swapped(weighted_score) ==
    IF Ge(weighted_score, R(75)) THEN "STRONG BUY"
    ELSE IF Ge(weighted_score, R(60)) THEN "WEAK BUY"
    ELSE IF Ge(weighted_score, R(55)) THEN "BUY"
    ELSE IF Ge(weighted_score, R(45)) THEN "HOLD"
    ELSE IF Ge(weighted_score, R(40)) THEN "WEAK SELL"
    ELSE IF Ge(weighted_score, R(25)) THEN "SELL"
    ELSE "STRONG SELL"

\* The if/elif chain on weighted_score.
_action(weighted_score) ==
    IF Ge(weighted_score, R(75)) THEN "STRONG BUY"
    ELSE IF Ge(weighted_score, R(60)) THEN "BUY"
    ELSE IF Ge(weighted_score, R(55)) THEN "WEAK BUY"
    ELSE IF Ge(weighted_score, R(45)) THEN "HOLD"
    ELSE IF Ge(weighted_score, R(40)) THEN "WEAK SELL"
    ELSE IF Ge(weighted_score, R(25)) THEN "SELL"
    ELSE "STRONG SELL"

\* A confidence that follows the score instead of the tier: sell-side
\* actions all get Medium.
_confidence_byscore(weighted_score) ==
    IF Ge(weighted_score, R(75)) THEN "High"
    ELSE IF Ge(weighted_score, R(60)) THEN "Medium-High"
    ELSE "Medium"

_confidence(weighted_score) ==
    IF Ge(weighted_score, R(75)) THEN "High"
    ELSE IF Ge(weighted_score, R(60)) THEN "Medium-High"
    ELSE IF Ge(weighted_score, R(55)) THEN "Medium"
    ELSE IF Ge(weighted_score, R(45)) THEN "Medium"
    ELSE IF Ge(weighted_score, R(40)) THEN "Medium"
    ELSE IF Ge(weighted_score, R(25)) THEN "Medium-High"
    ELSE "High"

_risk_reward(action, current_price, target_price, stop_loss) ==
    IF action \in {"STRONG BUY", "BUY", "WEAK BUY"}
    THEN IF Gt(current_price, stop_loss)
         THEN Div(Sub(target_price, current_price),
                  Sub(current_price, stop_loss))
         ELSE R(0)
    ELSE R(0)

_generate_final_recommendation(scores, data, time_horizon_days, w) ==
    LET weighted_score == _weighted_score(scores, w)
        action == _action(weighted_score)
        current_price == data.current_price
        target_price ==
            _calculate_target_price(data, time_horizon_days, weighted_score)
        stop_loss == _calculate_stop_loss(data, weighted_score)
    IN  [action |-> action,
         confidence |-> _confidence(weighted_score),
         overall_score |-> weighted_score,
         component_scores |-> scores,
         current_price |-> current_price,
         target_price |-> target_price,
         stop_loss |-> stop_loss,
         risk_reward_ratio |->
             _risk_reward(action, current_price, target_price, stop_loss),
         time_horizon_days |-> time_horizon_days,
         expected_return |->
             IF Gt(current_price, R(0))
             THEN Mul(Div(Sub(target_price, current_price), current_price),
                      R(100))
             ELSE R(0),
         reasoning |-> _generate_reasoning(scores, data, action),
         weights_used |-> w]

(***************************************************************************)
(* Collaborators                                                           *)
(***************************************************************************)
\* sorted(set(levels)) as a sequence of rationals, ascending.
RECURSIVE SortedAsc(_)
SortedAsc(S) ==
    IF S = {} THEN <<>>
    ELSE LET m == CHOOSE x \in S : \A y \in S : x <= y
         IN  <<R(m)>> \o SortedAsc(S \ {m})

Reverse(q) == [i \in 1..Len(q) |-> q[Len(q) + 1 - i]]

\* q[-3:]
Last3(q) == IF Len(q) <= 3 THEN q ELSE SubSeq(q, Len(q) - 2, Len(q))

\* q[:3]
First3(q) == IF Len(q) <= 3 THEN q ELSE SubSeq(q, 1, 3)

\* EnhancedTechnicalAnalysis.find_support_resistance: peaks and troughs are
\* the rolling-window highs and lows found in the history, close its last
\* closing price.
find_support_resistance(peaks, troughs, close) ==
    [resistance_levels |-> Last3(SortedAsc({r \in peaks : r > close})),
     support_levels |-> First3(Reverse(SortedAsc({t \in troughs : t < close}))),
     current_price |-> R(close)]

\* The report get_comprehensive_analysis returns when it does not return
\* None.  Of its sections only the four the engine reads are kept
\* (advanced_indicators, patterns and volatility_analysis are never read).
get_comprehensive_analysis(basic, trend, volume, peaks, troughs, close) ==
    Some([basic_indicators |-> basic,
          support_resistance |-> find_support_resistance(peaks, troughs, close),
          trend_analysis |-> trend,
          volume_analysis |-> volume])

\* The record MLPredictor.predict_future_price returns when it does not
\* return None: the ensemble price sits under 'ensemble_prediction'.  The
\* per-model entries (individual_models, model_performance) are never read
\* by the engine and are left out.
predict_future_price(close, ensemble_return_pct, days_ahead) ==
    [current_price |-> R(close),
     ensemble_prediction |->
        [predicted_price |->
            Mul(R(close), Add(R(1), Frac(ensemble_return_pct, 100))),
         predicted_return |-> Frac(ensemble_return_pct, 100),
         prediction_days |-> days_ahead]]

\* generate_price_projections: one price per projected day.  Only the
\* 'ensemble' entry is read by the engine; its prices are taken to move by
\* a constant daily step from the last close.
generate_price_projections(close, step, projection_days) ==
    Some([ensemble |->
            [prices |-> [i \in 1..projection_days |->
                            Add(R(close), Mul(R(i), step))],
             method |-> "Ensemble"]])

(***************************************************************************)
(* State                                                                   *)
(***************************************************************************)
VARIABLES
    pc,                 \* position of the generate_recommendation invocation
    horizon,            \* its time_horizon_days argument
    latest,             \* market-data provider: the latest closing price
    ticks,              \* price changes the provider has seen so far
    df,                 \* ticker.history(period="1y") of the gathering step
    technical_analysis, \* what get_comprehensive_analysis returned
    ml_predictions,     \* the dict the forecast loop fills
    ml_idx,             \* index of the loop's next candidate horizon
    projections,        \* what create_projection_chart returned
    data,               \* analysis_data
    scores,             \* what _calculate_scores returned
    result,             \* what generate_recommendation returns
    weights,            \* TradingRecommendationEngine.weights
    scaler,             \* MLPredictor.scaler: the symbol it was last fitted on
    models,             \* MLPredictor.models: per model, the symbol last fitted
    thr                 \* concurrent invocations: each one's forecast call

engineVars == <<pc, horizon, df, technical_analysis, ml_predictions, ml_idx,
                projections, data, scores, result, weights>>

marketVars == <<latest, ticks>>

predictorVars == <<scaler, models, thr>>

vars == <<engineVars, marketVars, predictorVars>>

(***************************************************************************)
(* Bounds and input sets                                                   *)
(***************************************************************************)
\* Price changes of the provider during one invocation.
MaxTicks == 1

\* Length of the return series of a price history.
MaxReturns == 2

\* for days in [7, 14, 30, 60, 90]
CandidateHorizons == <<7, 14, 30, 60, 90>>

Horizons == {5, 14}

StartPrices == {100}

TickDeltas == {3}

\* Rolling-window highs and lows a history may hold.
PeakSets == {{}, {104, 110}, {101, 104, 110, 120}}

TroughSets == {{}, {90, 99}}

\* Indicator sets of the gathered reports: an oversold and an overbought
\* reading.
BasicIndicators ==
    {[RSI |-> R(25), MACD |-> R(1), MACD_Signal |-> R(0),
      Price_vs_SMA20 |-> Frac(2, 100), Price_vs_SMA50 |-> Frac(2, 100)],
     [RSI |-> R(75), MACD |-> R(0), MACD_Signal |-> R(0),
      Price_vs_SMA20 |-> Frac(-2, 100), Price_vs_SMA50 |-> Frac(-2, 100)]}

TrendAnalyses ==
    {[direction |-> "up", strength |-> R(1)],
     [direction |-> "down", strength |-> R(1)]}

VolumeAnalyses ==
    {[volume_trend |-> "increasing", obv_trend |-> "bullish",
      volume_breakout |-> TRUE],
     [volume_trend |-> "decreasing", obv_trend |-> "bearish",
      volume_breakout |-> FALSE]}

\* Sequences over S of length at most n.
RECURSIVE SeqsUpTo(_, _)
SeqsUpTo(S, n) ==
    IF n = 0 THEN {<<>>}
    ELSE LET shorter == SeqsUpTo(S, n - 1)
         IN  shorter \cup {Append(q, x) : q \in {r \in shorter : Len(r) = n - 1},
                                          x \in S}

\* An empty history (df.empty).
EmptyFrame == [empty |-> TRUE]

\* A one-row history: no returns, so every statistic over them is NaN.
OneRowFrame(close) ==
    [empty |-> FALSE, close |-> R(close), volume |-> R(1000),
     avg_volume |-> NaN, momentum_20d |-> NaN, returns |-> <<>>,
     volatility |-> NaN, mean_annual |-> NaN]

\* The statistics pandas computes over the closes of a history: the mean of
\* the last 20 daily returns, the annualized volatility and mean return, and
\* the return series itself.  A calm rising market and a falling one.
Markets ==
    {[momentum_20d |-> Frac(6, 100), volatility |-> Frac(18, 100),
      mean_annual |-> Frac(216, 1000),
      returns |-> <<Frac(1, 100), Frac(-2, 100)>>],
     [momentum_20d |-> Frac(-6, 100), volatility |-> Frac(60, 100),
      mean_annual |-> Frac(-180, 1000),
      returns |-> <<Frac(-35, 100), Frac(1, 100)>>]}

\* Non-empty histories: the last close and volume, the 20-day mean volume,
\* and the statistics of the closes.
Frames(close) ==
    {OneRowFrame(close)} \cup
    {[empty |-> FALSE, close |-> R(close), volume |-> R(v),
      avg_volume |-> R(1000), momentum_20d |-> mk.momentum_20d,
      returns |-> mk.returns, volatility |-> mk.volatility,
      mean_annual |-> mk.mean_annual] :
        v \in {400, 2100}, mk \in Markets}

Reports(close) ==
    {get_comprehensive_analysis(b, t, v, pk, tr, close) :
        b \in BasicIndicators, t \in TrendAnalyses, v \in VolumeAnalyses,
        pk \in PeakSets, tr \in TroughSets}

\* Ensemble returns, in percent, the forecaster may predict.
EnsembleReturns == {8}

\* Daily steps of the ensemble projection.
ProjectionSteps == {Frac(-1, 2), Frac(1, 5)}

(***************************************************************************)
(* generate_recommendation, step by step.  The invocation gives up control *)
(* only at its calls to the collaborators that fetch market data, so each  *)
(* action runs from one such call to the next.                             *)
(***************************************************************************)
Pending == [kind |-> "pending", rec |-> EmptyDict]

\* return None
ReturnNone == [kind |-> "None", rec |-> EmptyDict]

Recommendation(rec) == [kind |-> "Recommendation", rec |-> rec]

NoData == [present |-> FALSE, d |-> EmptyDict]

Init ==
    /\ pc = "idle"
    /\ horizon = 0
    /\ latest \in StartPrices
    /\ ticks = 0
    /\ df = EmptyFrame
    /\ technical_analysis = None
    /\ ml_predictions = EmptyPredictions
    /\ ml_idx = 1
    /\ projections = None
    /\ data = NoData
    /\ scores = EmptyDict
    /\ result = Pending
    /\ weights = InitialWeights
    /\ scaler = "unfitted"
    /\ models = [m \in {"random_forest", "gradient_boost", "linear"} |-> "unfitted"]
    /\ thr = <<>>

\* engine.generate_recommendation(symbol, time_horizon_days) is called.
Start ==
    /\ pc = "idle"
    /\ \E h \in Horizons : horizon' = h
    /\ pc' = "history"
    /\ UNCHANGED <<df, technical_analysis, ml_predictions, ml_idx, projections,
                   data, scores, result, weights>>
    /\ UNCHANGED <<marketVars, predictorVars>>

\* The provider's latest price moves while the invocation waits for a fetch.
Tick ==
    /\ pc \in {"technical", "ml", "projection"}
    /\ ticks < MaxTicks
    /\ \E delta \in TickDeltas : latest' = latest + delta
    /\ ticks' = ticks + 1
    /\ UNCHANGED <<engineVars, predictorVars>>

\* An engine that skips "if df.empty: return None" and answers anyway.
FetchHistory_fabricates ==
    /\ pc = "history"
    /\ \E f \in {EmptyFrame} \cup Frames(latest) :
          /\ df' = f
          /\ IF f.empty
             THEN pc' = "done" /\ result' = Recommendation(EmptyDict)
             ELSE pc' = "technical" /\ result' = result
    /\ UNCHANGED <<horizon, technical_analysis, ml_predictions, ml_idx,
                   projections, data, scores, weights>>
    /\ UNCHANGED <<marketVars, predictorVars>>

\* _get_comprehensive_data: ticker.history(period="1y"); an empty frame
\* makes it return None, and generate_recommendation returns None.
FetchHistory ==
    /\ pc = "history"
    /\ \E f \in {EmptyFrame} \cup Frames(latest) :
          /\ df' = f
          /\ IF f.empty
             THEN pc' = "done" /\ result' = ReturnNone
             ELSE pc' = "technical" /\ result' = result
    /\ UNCHANGED <<horizon, technical_analysis, ml_predictions, ml_idx,
                   projections, data, scores, weights>>
    /\ UNCHANGED <<marketVars, predictorVars>>

\* A loop without "if days <= time_horizon_days": every candidate is
\* forecast.
MoreForecasts_all(i) == i <= Len(CandidateHorizons)

\* The loop "for days in [7, 14, 30, 60, 90]: if days <= time_horizon_days"
\* calls the forecaster for a prefix of the candidates.
MoreForecasts(i) ==
    i <= Len(CandidateHorizons) /\ CandidateHorizons[i] <= horizon

\* self.technical_analyzer.get_comprehensive_analysis(symbol): its own
\* fetch of the history; None when that is empty or the analysis raises.
TechnicalAnalysis ==
    /\ pc = "technical"
    /\ technical_analysis' \in {None} \cup Reports(latest)
    /\ ml_predictions' = EmptyPredictions
    /\ ml_idx' = 1
    /\ pc' = IF MoreForecasts(1) THEN "ml" ELSE "projection"
    /\ UNCHANGED <<horizon, df, projections, data, scores, result, weights>>
    /\ UNCHANGED <<marketVars, predictorVars>>

\* ml_predictions[days] = pred
Insert(preds, days, pred) ==
    [order |-> Append(preds.order, days),
     at |-> [k \in DOMAIN preds.at \cup {days} |->
                IF k = days THEN pred ELSE preds.at[k]]]

\* One pass of the forecast loop: pred = predict_future_price(symbol, days),
\* kept if it is not None.  A forecast that succeeds has refitted the
\* predictor's scaler and models on the symbol (here "A").
MLPredict ==
    /\ pc = "ml"
    /\ LET days == CandidateHorizons[ml_idx]
       IN  \/ /\ ml_predictions' = ml_predictions
              /\ UNCHANGED <<scaler, models>>
           \/ /\ \E r \in EnsembleReturns :
                    ml_predictions' =
                        Insert(ml_predictions, days,
                               predict_future_price(latest, r, days))
              /\ scaler' = "A"
              /\ models' = [m \in DOMAIN models |-> "A"]
    /\ ml_idx' = ml_idx + 1
    /\ pc' = IF MoreForecasts(ml_idx + 1) THEN "ml" ELSE "projection"
    /\ UNCHANGED <<horizon, df, technical_analysis, projections, data, scores,
                   result, weights, thr>>
    /\ UNCHANGED marketVars

\* Lines 70-91 of _get_comprehensive_data: the bundle.  Of df the scoring
\* layer reads only the mean of the last 20 daily returns.
Bundle(f, ta, preds, proj) ==
    Some([momentum_20d |-> f.momentum_20d,
          technical_analysis |-> ta,
          ml_predictions |-> preds,
          projections |-> proj,
          current_price |-> f.close,
          current_volume |-> f.volume,
          avg_volume |-> f.avg_volume,
          volatility |-> f.volatility,
          sharpe_ratio |-> IF Gt(f.volatility, R(0))
                           THEN Div(f.mean_annual, f.volatility)
                           ELSE R(0),
          returns |-> f.returns])

\* generate_recommendation without its except clause: what the scoring
\* layer raises reaches the caller.
Finish_propagates(bundle, time_horizon_days, w) ==
    LET r == _calculate_scores(bundle.d, time_horizon_days)
    IN  IF r.raised
        THEN [scores |-> EmptyDict,
              result |-> [kind |-> "AttributeError", rec |-> EmptyDict]]
        ELSE [scores |-> r.scores,
              result |-> Recommendation(
                  _generate_final_recommendation(r.scores, bundle.d,
                                                 time_horizon_days, w))]

\* The rest of generate_recommendation once analysis_data is there:
\* _calculate_scores, whose exception generate_recommendation catches to
\* return None, then _generate_final_recommendation.
Finish(bundle, time_horizon_days, w) ==
    LET r == _calculate_scores(bundle.d, time_horizon_days)
    IN  IF r.raised
        THEN [scores |-> EmptyDict, result |-> ReturnNone]
        ELSE [scores |-> r.scores,
              result |-> Recommendation(
                  _generate_final_recommendation(r.scores, bundle.d,
                                                 time_horizon_days, w))]

\* fig, projections = create_projection_chart(symbol, time_horizon_days),
\* the last fetch, and everything after it.  create_projection_chart
\* returns a bare None on an empty history, which the tuple assignment
\* cannot unpack: the TypeError makes _get_comprehensive_data return None,
\* and so does generate_recommendation.  It returns (None, None) when it
\* raises inside.
Projection ==
    /\ pc = "projection"
    /\ \/ /\ projections' = projections
          /\ data' = data
          /\ scores' = scores
          /\ result' = ReturnNone
       \/ \E proj \in {None} \cup
                {generate_price_projections(latest, st, horizon) :
                     st \in ProjectionSteps} :
             \E bundle \in {Bundle(df, technical_analysis, ml_predictions, proj)} :
             \E fin \in {Finish(bundle, horizon, weights)} :
                 /\ projections' = proj
                 /\ data' = bundle
                 /\ scores' = fin.scores
                 /\ result' = fin.result
    /\ pc' = "done"
    /\ UNCHANGED <<horizon, df, technical_analysis, ml_predictions, ml_idx,
                   weights>>
    /\ UNCHANGED <<marketVars, predictorVars>>

Next ==
    \/ Start
    \/ Tick
    \/ FetchHistory
    \/ TechnicalAnalysis
    \/ MLPredict
    \/ Projection

Spec == Init /\ [][Next]_vars

(***************************************************************************)
(* The scoring and synthesis layer on its own: _calculate_scores and       *)
(* _generate_final_recommendation applied to an analysis bundle taken from *)
(* a wide set, as a caller holding a bundle would apply them.              *)
(***************************************************************************)
WideBasicIndicators ==
    {[RSI |-> R(rsi), MACD |-> R(macd), MACD_Signal |-> R(0),
      Price_vs_SMA20 |-> Frac(sma, 100), Price_vs_SMA50 |-> Frac(sma, 100)] :
        rsi \in {25, 50, 75}, macd \in {0, 1}, sma \in {-2, 2}}

WideTrendAnalyses ==
    {[direction |-> "up", strength |-> R(1)],
     [direction |-> "down", strength |-> R(1)],
     [direction |-> "neutral", strength |-> Frac(1, 2)]}

\* Peaks and troughs around a close of 100: none, far and near.
WideLevels ==
    {<<{}, {}>>, <<{110, 120}, {99}>>, <<{101}, {90}>>, <<{104, 110}, {}>>}

WideReports ==
    {None, Some(EmptyDict)} \cup
    {get_comprehensive_analysis(b, t,
         IF b.Price_vs_SMA20[1] > 0
         THEN [volume_trend |-> "increasing", obv_trend |-> "bullish",
               volume_breakout |-> TRUE]
         ELSE [volume_trend |-> "decreasing", obv_trend |-> "bearish",
               volume_breakout |-> FALSE],
         lv[1], lv[2], 100) :
        b \in WideBasicIndicators, t \in WideTrendAnalyses, lv \in WideLevels}

\* Prediction dicts as the scoring layer reads them (predicted_price and
\* confidence at the top of an entry), and the forecaster's own record.
WidePredictions ==
    {EmptyPredictions,
     [order |-> <<30>>,
      at |-> [k \in {30} |-> [predicted_price |-> R(108),
                              confidence |-> Frac(9, 10)]]],
     [order |-> <<7, 30>>,
      at |-> [k \in {7, 30} |->
                 IF k = 7 THEN [predicted_price |-> R(104), confidence |-> R(1)]
                 ELSE [predicted_price |-> R(70), confidence |-> R(1)]]],
     [order |-> <<30, 60>>,
      at |-> [k \in {30, 60} |->
                 IF k = 30 THEN [predicted_price |-> R(130), confidence |-> R(1)]
                 ELSE [predicted_price |-> R(90), confidence |-> R(1)]]],
     [order |-> <<60>>,
      at |-> [k \in {60} |-> [predicted_price |-> R(90), confidence |-> R(1)]]],
     [order |-> <<7>>, at |-> [k \in {7} |-> predict_future_price(100, 8, 7)]]}

WideFrames ==
    {[empty |-> FALSE, close |-> R(100), volume |-> R(v),
      avg_volume |-> R(1000), momentum_20d |-> Frac(m, 100),
      returns |-> rs, volatility |-> Frac(risk[1], 100),
      mean_annual |-> Frac(risk[2], 1000)] :
        v \in {400, 2100}, m \in {-6, 6},
        rs \in SeqsUpTo({Frac(-35, 100)}, MaxReturns),
        risk \in {<<18, 216>>, <<60, -180>>}}

\* Histories without information: no volume, flat closes (every return
\* statistic 0) and an empty return series; the close itself 0 or 100.
FlatFrames ==
    {[empty |-> FALSE, close |-> R(c), volume |-> R(0), avg_volume |-> R(0),
      momentum_20d |-> R(0), returns |-> <<>>, volatility |-> R(0),
      mean_annual |-> R(0)] : c \in {0, 100}}

\* The synthetic bullish bundle: RSI 25, MACD over its signal, trend up
\* with strength 0.8, a forecast of +8% at 30 days with confidence 0.9,
\* volatility 0.18, Sharpe ratio 1.2, volume 2.1 times its mean and a
\* volume breakout; every other field is free.
BullishBundles ==
    {Bundle([empty |-> FALSE, close |-> R(100), volume |-> R(2100),
             avg_volume |-> R(1000), momentum_20d |-> Frac(m, 100),
             returns |-> rs, volatility |-> Frac(18, 100),
             mean_annual |-> Frac(216, 1000)],
            get_comprehensive_analysis(
                [RSI |-> R(25), MACD |-> R(1), MACD_Signal |-> R(0),
                 Price_vs_SMA20 |-> Frac(sma, 100),
                 Price_vs_SMA50 |-> Frac(sma, 100)],
                [direction |-> "up", strength |-> Frac(8, 10)],
                [volume_trend |-> va[1], obv_trend |-> va[2],
                 volume_breakout |-> TRUE],
                lv[1], lv[2], 100),
            [order |-> <<30>>,
             at |-> [k \in {30} |-> [predicted_price |-> R(108),
                                     confidence |-> Frac(9, 10)]]],
            proj) :
        m \in {-6, 0, 6}, sma \in {-2, 2},
        va \in {<<"increasing", "bullish">>, <<"decreasing", "bearish">>},
        lv \in WideLevels,
        rs \in {<<>>, <<Frac(-35, 100), Frac(-35, 100)>>},
        proj \in {None, generate_price_projections(100, Frac(-1, 2), 30),
                  generate_price_projections(100, Frac(1, 5), 30)}}

\* A history in the middle of every band the scores look at: volume at
\* its mean, flat 20-day momentum, volatility 0.3, Sharpe ratio 0.3.
NeutralFrame ==
    [empty |-> FALSE, close |-> R(100), volume |-> R(1000),
     avg_volume |-> R(1000), momentum_20d |-> R(0), returns |-> <<>>,
     volatility |-> Frac(3, 10), mean_annual |-> Frac(9, 100)]

\* Trends as the linear regression over the closes grades them: the
\* strength is |r_value|, any value of [0, 1].
PartialTrendAnalyses ==
    {[direction |-> d, strength |-> Frac(st, 100)] :
        d \in {"up", "down"}, st \in {63, 88}}

\* The neutral history under reports with such a trend and no levels.
PartialTrendBundles ==
    {Bundle(NeutralFrame,
            get_comprehensive_analysis(
                b, t,
                [volume_trend |-> "decreasing", obv_trend |-> "bearish",
                 volume_breakout |-> FALSE],
                {}, {}, 100),
            EmptyPredictions, None) :
        b \in WideBasicIndicators, t \in PartialTrendAnalyses}

\* A rising but very volatile history (annual volatility 0.8, Sharpe
\* ratio 0.6, volume 1.8 times its mean) under an
\* oversold report with a rising trend: a high overall score whose
\* volatility stop lies more than 8% below the price.
VolatileBundles ==
    {Bundle([empty |-> FALSE, close |-> R(100), volume |-> R(1800),
             avg_volume |-> R(1000), momentum_20d |-> Frac(6, 100),
             returns |-> <<>>, volatility |-> Frac(8, 10),
             mean_annual |-> Frac(48, 100)],
            get_comprehensive_analysis(
                [RSI |-> R(25), MACD |-> R(1), MACD_Signal |-> R(0),
                 Price_vs_SMA20 |-> Frac(2, 100),
                 Price_vs_SMA50 |-> Frac(2, 100)],
                [direction |-> "up", strength |-> R(1)],
                [volume_trend |-> "increasing", obv_trend |-> "bullish",
                 volume_breakout |-> TRUE],
                lv[1], lv[2], 100),
            preds, None) :
        lv \in WideLevels, preds \in WidePredictions}

WideBundles ==
    {Bundle(f, ta, preds, None) :
        f \in WideFrames \cup FlatFrames \cup {NeutralFrame, OneRowFrame(100)},
        ta \in WideReports,
        preds \in WidePredictions}
    \cup BullishBundles \cup PartialTrendBundles \cup VolatileBundles

InitBundle ==
    /\ pc = "gathered"
    /\ horizon = 30
    /\ latest \in StartPrices
    /\ ticks = 0
    /\ df = EmptyFrame
    /\ technical_analysis = None
    /\ ml_predictions = EmptyPredictions
    /\ ml_idx = 1
    /\ projections = None
    /\ data \in WideBundles
    /\ scores = EmptyDict
    /\ result = Pending
    /\ weights = InitialWeights
    /\ scaler = "unfitted"
    /\ models = [m \in {"random_forest", "gradient_boost", "linear"} |-> "unfitted"]
    /\ thr = <<>>

\* scores = self._calculate_scores(...); recommendation =
\* self._generate_final_recommendation(...), on the bundle at hand.
Synthesize ==
    /\ pc = "gathered"
    /\ \E fin \in {Finish(data, horizon, weights)} :
          /\ scores' = fin.scores
          /\ result' = fin.result
    /\ pc' = "done"
    /\ UNCHANGED <<horizon, df, technical_analysis, ml_predictions, ml_idx,
                   projections, data, weights>>
    /\ UNCHANGED <<marketVars, predictorVars>>

NextBundle == Synthesize

SpecBundle == InitBundle /\ [][NextBundle]_vars

(***************************************************************************)
(* One engine over several invocations, with a caller that keeps the       *)
(* recommendations it was handed and writes into them.  The recommendation *)
(* holds 'component_scores': scores, the dict of that invocation, and      *)
(* 'weights_used': self.weights, the dict of the engine itself.            *)
(***************************************************************************)
\* Values the caller writes into a dict of a returned recommendation.
CallerValues == {R(0)}

\* The bundles gathered for the invocations of one engine.
CallerBundles ==
    {b \in PartialTrendBundles :
        /\ b.d.technical_analysis.d.basic_indicators.RSI = R(50)
        /\ b.d.technical_analysis.d.basic_indicators.MACD = R(1)
        /\ b.d.technical_analysis.d.trend_analysis.direction = "up"}

InitCaller ==
    /\ pc = "gathered"
    /\ horizon = 30
    /\ latest \in StartPrices
    /\ ticks = 0
    /\ df = EmptyFrame
    /\ technical_analysis = None
    /\ ml_predictions = EmptyPredictions
    /\ ml_idx = 1
    /\ projections = None
    /\ data \in CallerBundles
    /\ scores = EmptyDict
    /\ result = Pending
    /\ weights = InitialWeights
    /\ scaler = "unfitted"
    /\ models = [m \in {"random_forest", "gradient_boost", "linear"} |-> "unfitted"]
    /\ thr = <<>>

\* recommendation['weights_used'][c] = v, on the caller's side: the dict
\* is self.weights, so the engine's weights change with it.
CallerEditsWeights ==
    /\ pc = "done"
    /\ result.kind = "Recommendation"
    /\ \E c \in DOMAIN weights, v \in CallerValues :
          \E w \in {[weights EXCEPT ![c] = v]} :
              /\ weights' = w
              /\ result' = Recommendation([result.rec EXCEPT !.weights_used = w])
    /\ UNCHANGED <<pc, horizon, df, technical_analysis, ml_predictions, ml_idx,
                   projections, data, scores>>
    /\ UNCHANGED <<marketVars, predictorVars>>

\* recommendation['component_scores'][c] = v, on the caller's side: the
\* dict was built by the invocation that returned it and the engine holds
\* no reference to it.
CallerEditsScores ==
    /\ pc = "done"
    /\ result.kind = "Recommendation"
    /\ \E c \in DOMAIN scores, v \in CallerValues :
          \E sc \in {[scores EXCEPT ![c] = v]} :
              /\ scores' = sc
              /\ result' = Recommendation([result.rec EXCEPT !.component_scores = sc])
    /\ UNCHANGED <<pc, horizon, df, technical_analysis, ml_predictions, ml_idx,
                   projections, data, weights>>
    /\ UNCHANGED <<marketVars, predictorVars>>

\* The caller invokes generate_recommendation on the same engine again;
\* the gathering step hands the scoring layer a fresh bundle.
NextCall ==
    /\ pc = "done"
    /\ pc' = "gathered"
    /\ data' \in CallerBundles
    /\ scores' = EmptyDict
    /\ result' = Pending
    /\ UNCHANGED <<horizon, df, technical_analysis, ml_predictions, ml_idx,
                   projections, weights>>
    /\ UNCHANGED <<marketVars, predictorVars>>

NextCaller ==
    \/ Synthesize
    \/ CallerEditsWeights
    \/ CallerEditsScores
    \/ NextCall

SpecCaller == InitCaller /\ [][NextCaller]_vars

(***************************************************************************)
(* Two invocations of generate_recommendation running concurrently on one  *)
(* engine, for the symbols "A" and "B".  Both go through the engine's one  *)
(* MLPredictor, whose scaler and models are attributes shared by every     *)
(* call.  A thread can be preempted between any two calls into the         *)
(* scaler or a model, so each such call is one step.                       *)
(***************************************************************************)
\* Forecasts one invocation asks for (the days <= time_horizon_days).
MaxForecasts == 2

Symbols == {"A", "B"}

\* self.models, in the order of the dict.
ModelNames == <<"random_forest", "gradient_boost", "linear">>

InitConc ==
    /\ pc = "idle"
    /\ horizon = 0
    /\ latest \in StartPrices
    /\ ticks = 0
    /\ df = EmptyFrame
    /\ technical_analysis = None
    /\ ml_predictions = EmptyPredictions
    /\ ml_idx = 1
    /\ projections = None
    /\ data = NoData
    /\ scores = EmptyDict
    /\ result = Pending
    /\ weights = InitialWeights
    /\ scaler = "unfitted"
    /\ models = [m \in {"random_forest", "gradient_boost", "linear"} |-> "unfitted"]
    /\ thr = [t \in Symbols |->
                [at |-> "scaler", i |-> 1, calls |-> 1, used |-> {}]]

\* train_models: X_train_scaled = self.scaler.fit_transform(X_train)
ScalerFit(t) ==
    /\ thr[t].at = "scaler"
    /\ scaler' = t
    /\ thr' = [thr EXCEPT ![t].at = "fit", ![t].i = 1]
    /\ UNCHANGED <<models, engineVars, marketVars>>

\* train_models: model.fit(...) for the next model of self.models
ModelFit(t) ==
    /\ thr[t].at = "fit"
    /\ models' = [models EXCEPT ![ModelNames[thr[t].i]] = t]
    /\ thr' = IF thr[t].i < Len(ModelNames)
              THEN [thr EXCEPT ![t].i = @ + 1]
              ELSE [thr EXCEPT ![t].at = "predict", ![t].i = 1]
    /\ UNCHANGED <<scaler, engineVars, marketVars>>

\* predict_future_price: model.predict on the latest features, which the
\* linear model gets through self.scaler.transform.  used collects the
\* symbols whose fit the prediction went through.
ModelPredict(t) ==
    /\ thr[t].at = "predict"
    /\ LET name == ModelNames[thr[t].i]
           through == {models[name]} \cup
                      (IF name = "linear" THEN {scaler} ELSE {})
       IN  thr' = IF thr[t].i < Len(ModelNames)
                  THEN [thr EXCEPT ![t].i = @ + 1,
                                   ![t].used = @ \cup through]
                  ELSE [thr EXCEPT ![t].at = "returned", ![t].i = 1,
                                   ![t].used = @ \cup through]
    /\ UNCHANGED <<scaler, models, engineVars, marketVars>>

\* The forecast loop of _get_comprehensive_data goes to its next days.
NextForecast(t) ==
    /\ thr[t].at = "returned"
    /\ thr[t].calls < MaxForecasts
    /\ thr' = [thr EXCEPT ![t].at = "scaler", ![t].calls = @ + 1]
    /\ UNCHANGED <<scaler, models, engineVars, marketVars>>

NextConc ==
    \E t \in Symbols :
        ScalerFit(t) \/ ModelFit(t) \/ ModelPredict(t) \/ NextForecast(t)

SpecConc == InitConc /\ [][NextConc]_vars

(***************************************************************************)
(* Properties of the scores and of the action                              *)
(***************************************************************************)
Returned == pc = "done" /\ result.kind = "Recommendation"

InRange(x) == Ge(x, R(0)) /\ Le(x, R(100))

Components == {"technical", "ml_prediction", "momentum", "risk", "volume"}

\* C1: for every analysis bundle each of the five component scores that
\* _calculate_scores returns lies in [0, 100], and so does the overall
\* score, their weighted sum.
C1_ScoresInRange ==
    Returned =>
        /\ DOMAIN scores = Components
        /\ \A c \in Components : InRange(scores[c])
        /\ result.rec.component_scores = scores
        /\ InRange(result.rec.overall_score)

\* A bundle whose raw ML score (125) and raw momentum score (below 0) both
\* leave the range before the clamp.
C1_Witness ==
    /\ Returned
    /\ scores["ml_prediction"] = R(100)
    /\ scores["momentum"] = R(0)
    /\ Lt(Add(R(50), Mul(data.d.momentum_20d, R(1000))), R(0))

\* C2: the action is decided by the overall score alone, through the bands
\* [75, ..) STRONG BUY, [60, 75) BUY, [55, 60) WEAK BUY, [45, 55) HOLD,
\* [40, 45) WEAK SELL, [25, 40) SELL, (.., 25) STRONG SELL; the boundary
\* values 25, 40, 45, 55, 60 and 75 fall in the higher band.
C2_ActionByThreshold ==
    /\ Returned =>
          LET s == result.rec.overall_score
              a == result.rec.action
          IN  /\ (a = "STRONG BUY") <=> Ge(s, R(75))
              /\ (a = "BUY") <=> (Ge(s, R(60)) /\ Lt(s, R(75)))
              /\ (a = "WEAK BUY") <=> (Ge(s, R(55)) /\ Lt(s, R(60)))
              /\ (a = "HOLD") <=> (Ge(s, R(45)) /\ Lt(s, R(55)))
              /\ (a = "WEAK SELL") <=> (Ge(s, R(40)) /\ Lt(s, R(45)))
              /\ (a = "SELL") <=> (Ge(s, R(25)) /\ Lt(s, R(40)))
              /\ (a = "STRONG SELL") <=> Lt(s, R(25))
    /\ _action(R(10)) = "STRONG SELL"
    /\ _action(R(25)) = "SELL"
    /\ _action(R(40)) = "WEAK SELL"
    /\ _action(R(45)) = "HOLD"
    /\ _action(R(55)) = "WEAK BUY"
    /\ _action(R(60)) = "BUY"
    /\ _action(R(75)) = "STRONG BUY"

\* A recommendation whose overall score sits exactly on a boundary and
\* carries the higher tier.
C2_Witness ==
    /\ Returned
    /\ result.rec.overall_score = R(60)
    /\ result.rec.action = "BUY"

Rank(a) ==
    CASE a = "STRONG SELL" -> 0
      [] a = "SELL" -> 1
      [] a = "WEAK SELL" -> 2
      [] a = "HOLD" -> 3
      [] a = "WEAK BUY" -> 4
      [] a = "BUY" -> 5
      [] a = "STRONG BUY" -> 6

\* The overall scores 0, 1, ..., 100.
ScoreGrid == {R(i) : i \in 0..100}

\* C3: the score-to-action mapping is monotonic: a lower overall score
\* never gets an action of higher rank, in the order STRONG SELL < SELL <
\* WEAK SELL < HOLD < WEAK BUY < BUY < STRONG BUY.
C3_ActionMonotonic ==
    Returned =>
        LET s == result.rec.overall_score
            a == result.rec.action
        IN  \A g \in ScoreGrid :
               /\ Lt(g, s) => Rank(_action(g)) <= Rank(a)
               /\ Lt(s, g) => Rank(a) <= Rank(_action(g))

\* A recommendation strictly between two grid scores of different tiers.
C3_Witness ==
    /\ Returned
    /\ Gt(result.rec.overall_score, R(55))
    /\ Lt(result.rec.overall_score, R(60))
    /\ result.rec.action = "WEAK BUY"

\* C4: risk_reward_ratio is never negative, and it is 0 whenever the action
\* is not buy-side and whenever current_price <= stop_loss.
C4_RiskRewardNonNegative ==
    Returned =>
        LET rec == result.rec
        IN  /\ Ge(rec.risk_reward_ratio, R(0))
            /\ rec.action \notin {"STRONG BUY", "BUY", "WEAK BUY"}
                  => rec.risk_reward_ratio = R(0)
            /\ Le(rec.current_price, rec.stop_loss)
                  => rec.risk_reward_ratio = R(0)

\* A buy-side recommendation above its stop loss whose target price the
\* resistance cap has put below the current price.
C4_Witness ==
    /\ Returned
    /\ result.rec.action \in {"STRONG BUY", "BUY", "WEAK BUY"}
    /\ Gt(result.rec.current_price, result.rec.stop_loss)
    /\ Lt(result.rec.target_price, result.rec.current_price)

(***************************************************************************)
(* Properties of the gathering step                                        *)
(***************************************************************************)
\* C5: when the price history comes back empty, generate_recommendation
\* returns None, whatever the horizon asked for.
C5_EmptyHistoryReturnsNone ==
    (pc = "done" /\ df.empty) => result.kind = "None"

\* The invocation ended on an empty history, for the longer horizon.
C5_Witness ==
    /\ pc = "done"
    /\ df.empty
    /\ horizon = 14
    /\ ~data.present
    /\ result = ReturnNone

\* C6: with a non-empty history and no technical report, the invocation
\* still returns a Recommendation, whose technical score is exactly 50.
C6_MissingReportStillRecommends ==
    (pc = "done" /\ data.present /\ ~data.d.technical_analysis.present) =>
        /\ Returned
        /\ scores["technical"] = R(50)

\* The bundle was gathered without a technical report and the invocation
\* returned None.
C6_Witness ==
    /\ pc = "done"
    /\ ~df.empty
    /\ data.present
    /\ ~data.d.technical_analysis.present
    /\ result = ReturnNone

\* C7: with a non-empty history and a technical report, an invocation
\* whose projection collaborator gave no projections still returns a
\* Recommendation, whose target price leaves out the projection step.
C7_MissingProjectionStillRecommends ==
    (pc = "done" /\ ~df.empty /\ technical_analysis.present
       /\ ~projections.present) =>
        /\ Returned
        /\ result.rec.target_price =
              _target_cap(
                  _target_tilt(
                      _target_ml(data.d.current_price, data.d.ml_predictions,
                                 data.d.current_price, horizon),
                      result.rec.overall_score),
                  data.d.technical_analysis, result.rec.overall_score)

\* History and technical report were there, create_projection_chart had no
\* data, and the invocation returned None without a bundle.
C7_Witness ==
    /\ pc = "done"
    /\ ~df.empty
    /\ technical_analysis.present
    /\ ~projections.present
    /\ ~data.present
    /\ result = ReturnNone

\* The ensemble price of the forecaster's record stored under key days.
EnsemblePrice(preds, days) ==
    preds.at[days]["ensemble_prediction"]["predicted_price"]

\* C8: when the forecaster's ensemble price for the selected horizon
\* differs from current_price, the ML score differs from 50 in the same
\* direction, and the target price averages that ensemble price in.
C8_ForecastReachesScoring ==
    (Returned /\ Len(data.d.ml_predictions.order) > 0) =>
        LET preds == data.d.ml_predictions
            cp == data.d.current_price
            best == _ml_best_key(preds, horizon)
            best_days == _target_best_days(preds, horizon)
        IN  /\ (best # 0 /\ Gt(EnsemblePrice(preds, best), cp))
                  => Gt(scores["ml_prediction"], R(50))
            /\ (best # 0 /\ Lt(EnsemblePrice(preds, best), cp))
                  => Lt(scores["ml_prediction"], R(50))
            /\ _target_ml(cp, preds, cp, horizon) =
                  Div(Add(cp, EnsemblePrice(preds, best_days)), R(2))

\* A forecast 8% above the current price was stored for the horizon and the
\* ML score stayed at the neutral 50.
C8_Witness ==
    /\ Returned
    /\ 14 \in DOMAIN data.d.ml_predictions.at
    /\ Gt(EnsemblePrice(data.d.ml_predictions, 14), data.d.current_price)
    /\ scores["ml_prediction"] = R(50)

\* C10: the current_price inside the technical report's support_resistance
\* equals the recommendation's current_price, whatever the provider's
\* latest price did between the fetches.
C10_OneObservation ==
    (Returned /\ data.d.technical_analysis.present) =>
        data.d.technical_analysis.d["support_resistance"]["current_price"]
            = result.rec.current_price

\* The provider's price moved between the history fetch and the report's
\* own fetch, and the recommendation carries both prices.
C10_Witness ==
    /\ Returned
    /\ ticks > 0
    /\ data.d.technical_analysis.present
    /\ result.rec.current_price = R(100)
    /\ data.d.technical_analysis.d["support_resistance"]["current_price"]
          = R(103)

(***************************************************************************)
(* Properties of concurrent invocations                                    *)
(***************************************************************************)
\* C9: no invocation's ML prediction is computed through a scaler or a
\* model fitted on the other invocation's symbol.
C9_NoForeignFit ==
    \A t \in DOMAIN thr : thr[t].used \subseteq {t}

\* The invocation for "A" has predicted through state fitted on "B".
C9_Witness ==
    /\ DOMAIN thr = Symbols
    /\ thr["A"].at = "returned"
    /\ "B" \in thr["A"].used

(***************************************************************************)
(* Properties of the invocation as a whole                                 *)
(***************************************************************************)
\* C11: every invocation of generate_recommendation runs to its end and
\* ends by returning a Recommendation or None, whatever its collaborators
\* returned or raised; no exception reaches the caller.
C11_NoExceptionEscapes ==
    /\ pc = "done" => result.kind \in {"None", "Recommendation"}
    /\ pc # "done" =>
          /\ result = Pending
          /\ ENABLED Next

\* The scoring layer raised on a gathered bundle and the invocation ended
\* with None.
C11_Witness ==
    /\ pc = "done"
    /\ data.present
    /\ scores = EmptyDict
    /\ result.kind = "None"
    /\ ticks = 0

(***************************************************************************)
(* Properties of the reasoning, the weights and the neutral defaults       *)
(***************************************************************************)
\* Some component sentence or the RSI call-out applies: a technical score
\* outside [35, 65], another score outside [40, 60], or a report whose RSI
\* is outside [30, 70].
Qualified ==
    \/ Gt(scores["technical"], R(65)) \/ Lt(scores["technical"], R(35))
    \/ \E c \in {"ml_prediction", "momentum", "risk", "volume"} :
          Gt(scores[c], R(60)) \/ Lt(scores[c], R(40))
    \/ /\ Truthy(data.d.technical_analysis)
       /\ "basic_indicators" \in DOMAIN data.d.technical_analysis.d
       /\ "RSI" \in DOMAIN data.d.technical_analysis.d["basic_indicators"]
       /\ LET rsi == data.d.technical_analysis.d["basic_indicators"]["RSI"]
          IN  Gt(rsi, R(70)) \/ Lt(rsi, R(30))

\* C12: the reasoning of every recommendation has at least one sentence,
\* and it is exactly the one neutral fallback sentence if and only if no
\* component sentence and no RSI call-out qualified.
C12_ReasoningNonEmpty ==
    Returned =>
        /\ Len(result.rec.reasoning) >= 1
        /\ (result.rec.reasoning = <<"Mixed signals suggest a neutral stance">>)
              <=> ~Qualified

\* A recommendation on all-neutral scores, carrying the fallback alone.
C12_Witness ==
    /\ Returned
    /\ ~Qualified
    /\ result.rec.reasoning = <<"Mixed signals suggest a neutral stance">>

\* C13: the weights are technical 0.35, ml_prediction 0.25, momentum 0.20,
\* risk 0.10 and volume 0.10, they sum to exactly 1, and the overall score
\* is 50 whenever all five component scores are 50.
C13_WeightsSumToOne ==
    /\ DOMAIN weights = Components
    /\ weights["technical"] = Frac(35, 100)
    /\ weights["ml_prediction"] = Frac(25, 100)
    /\ weights["momentum"] = Frac(20, 100)
    /\ weights["risk"] = Frac(10, 100)
    /\ weights["volume"] = Frac(10, 100)
    /\ Add(weights["technical"],
           Add(weights["ml_prediction"],
               Add(weights["momentum"],
                   Add(weights["risk"], weights["volume"])))) = R(1)
    /\ (Returned /\ \A c \in Components : scores[c] = R(50))
          => result.rec.overall_score = R(50)

\* A recommendation whose five component scores are all 50.
C13_Witness ==
    /\ Returned
    /\ \A c \in Components : scores[c] = R(50)
    /\ result.rec.overall_score = R(50)
    /\ result.rec.weights_used = weights

\* The bundle's technical report is the empty dict.
EmptyReport == data.d.technical_analysis = Some(EmptyDict)

\* C14: component_scores has exactly the five keys, and a component whose
\* inputs are all missing scores 50: the technical score on an empty
\* report, the ML score without predictions, and, on an empty report, the
\* momentum score without a 20-day return, the risk score without returns
\* and the volume score without a mean volume.
C14_FiveComponentsNeutralWhenMissing ==
    Returned =>
        /\ DOMAIN result.rec.component_scores = Components
        /\ EmptyReport => scores["technical"] = R(50)
        /\ Len(data.d.ml_predictions.order) = 0 => scores["ml_prediction"] = R(50)
        /\ (EmptyReport /\ IsNaN(data.d.momentum_20d))
              => scores["momentum"] = R(50)
        /\ (data.d.returns = <<>> /\ IsNaN(data.d.volatility))
              => scores["risk"] = R(50)
        /\ (EmptyReport /\ IsNaN(data.d.avg_volume))
              => scores["volume"] = R(50)

\* A one-row history with an empty report and no predictions: every input
\* of every component is missing, four scores are 50 and the momentum
\* score is 100.
C14_Witness ==
    /\ Returned
    /\ EmptyReport
    /\ Len(data.d.ml_predictions.order) = 0
    /\ IsNaN(data.d.momentum_20d)
    /\ \A c \in Components \ {"momentum"} : scores[c] = R(50)
    /\ scores["momentum"] = R(100)

\* C15: with empty inputs the scoring functions are exactly neutral: the
\* technical score of {} is 50, the ML score of {} is 50 at every price and
\* horizon, the volume score of (0, 0, {}) is 50, and the momentum score of
\* a zero-return series with an empty report is 50.
C15_NeutralDefaults ==
    /\ _calculate_technical_score(Some(EmptyDict)) = R(50)
    /\ \A p \in {0, 1, 100}, h \in {1, 7, 30, 90} :
          _calculate_ml_score(EmptyPredictions, R(p), h) = R(50)
    /\ _calculate_volume_score(R(0), R(0), Some(EmptyDict)) = R(50)
    /\ _calculate_momentum_score(R(0), Some(EmptyDict)) = R(50)
    /\ (Returned /\ EmptyReport /\ Len(data.d.ml_predictions.order) = 0
          /\ data.d.current_volume = R(0) /\ data.d.avg_volume = R(0)
          /\ data.d.momentum_20d = R(0))
          => \A c \in Components \ {"risk"} : scores[c] = R(50)

\* A flat history without volume, an empty report and no predictions,
\* scored 50 on everything but risk.
C15_Witness ==
    /\ Returned
    /\ EmptyReport
    /\ Len(data.d.ml_predictions.order) = 0
    /\ data.d.current_volume = R(0)
    /\ data.d.avg_volume = R(0)
    /\ data.d.momentum_20d = R(0)
    /\ data.d.current_price = R(100)
    /\ \A c \in Components \ {"risk"} : scores[c] = R(50)

\* C16: the risk score of volatility 0, Sharpe ratio 0 and an empty return
\* series is exactly 50.
C16_RiskNeutralDefault ==
    /\ _calculate_risk_score(R(0), R(0), <<>>) = R(50)
    /\ (Returned /\ data.d.volatility = R(0) /\ data.d.sharpe_ratio = R(0)
          /\ data.d.returns = <<>>) => scores["risk"] = R(50)

\* The risk score of volatility 0, Sharpe ratio 0 and no returns came out
\* as 60: the low-volatility bonus was applied.
C16_Witness ==
    /\ Returned
    /\ data.d.volatility = R(0)
    /\ data.d.sharpe_ratio = R(0)
    /\ data.d.returns = <<>>
    /\ scores["risk"] = R(60)

\* C17: the confidence follows from the action alone: High for STRONG BUY
\* and STRONG SELL, Medium-High for BUY and SELL, Medium for WEAK BUY,
\* WEAK SELL and HOLD.
C17_ConfidenceByAction ==
    Returned =>
        result.rec.confidence =
            CASE result.rec.action \in {"STRONG BUY", "STRONG SELL"} -> "High"
              [] result.rec.action \in {"BUY", "SELL"} -> "Medium-High"
              [] result.rec.action \in {"WEAK BUY", "WEAK SELL", "HOLD"}
                    -> "Medium"

\* A strong sell, returned with high confidence.
C17_Witness ==
    /\ Returned
    /\ result.rec.action = "STRONG SELL"
    /\ result.rec.confidence = "High"

(***************************************************************************)
(* The end-to-end bullish scenario                                         *)
(***************************************************************************)
\* The bundle at hand has the fields of the bullish scenario: RSI 25, MACD
\* over its signal, trend up with strength 0.8, a forecast of +8% at 30
\* days with confidence 0.9, volatility 0.18, Sharpe ratio 1.2, volume 2.1
\* times its mean, a volume breakout, and the horizon is 30.
Bullish ==
    /\ horizon = 30
    /\ Truthy(data.d.technical_analysis)
    /\ LET ta == data.d.technical_analysis.d
           preds == data.d.ml_predictions
       IN  /\ ta["basic_indicators"]["RSI"] = R(25)
           /\ Gt(ta["basic_indicators"]["MACD"],
                 ta["basic_indicators"]["MACD_Signal"])
           /\ ta["trend_analysis"] =
                 [direction |-> "up", strength |-> Frac(8, 10)]
           /\ ta["volume_analysis"]["volume_breakout"]
           /\ preds.order = <<30>>
           /\ preds.at[30] =
                 [predicted_price |-> Mul(data.d.current_price, Frac(108, 100)),
                  confidence |-> Frac(9, 10)]
    /\ data.d.volatility = Frac(18, 100)
    /\ data.d.sharpe_ratio = Frac(12, 10)
    /\ data.d.current_volume = Mul(data.d.avg_volume, Frac(21, 10))

\* C18 as stated: every completion of the bullish bundle gets all five
\* component scores > 65, an overall score > 70, STRONG BUY or BUY, a
\* target price above the current price and a positive risk_reward_ratio.
C18_BullishAsStated ==
    (Returned /\ Bullish) =>
        /\ \A c \in Components : Gt(scores[c], R(65))
        /\ Gt(result.rec.overall_score, R(70))
        /\ result.rec.action \in {"STRONG BUY", "BUY"}
        /\ Gt(result.rec.target_price, result.rec.current_price)
        /\ Gt(result.rec.risk_reward_ratio, R(0))

\* The projected price at the horizon, if there is one, is not below the
\* current price, and the cap of 0.95 times the nearest resistance, if
\* there is one, is above it.
TargetUnhindered ==
    /\ Truthy(data.d.projections) =>
          Ge(data.d.projections.d["ensemble"]["prices"][horizon],
             data.d.current_price)
    /\ LET levels ==
               data.d.technical_analysis.d["support_resistance"]["resistance_levels"]
       IN  Len(levels) > 0 =>
               Gt(Mul(levels[1], Frac(95, 100)), data.d.current_price)

\* C18, amended: every completion of the bullish bundle gets technical, ML
\* and volume scores > 65, a risk score >= 65 and STRONG BUY or BUY; the
\* overall score is > 70 whenever the momentum and risk scores are > 65
\* too; the target price is above the current price and risk_reward_ratio
\* is positive whenever neither the projection nor the resistance cap
\* holds the target down.
C18_BullishAmended ==
    (Returned /\ Bullish) =>
        /\ \A c \in {"technical", "ml_prediction", "volume"} :
              Gt(scores[c], R(65))
        /\ Ge(scores["risk"], R(65))
        /\ result.rec.action \in {"STRONG BUY", "BUY"}
        /\ (Gt(scores["momentum"], R(65)) /\ Gt(scores["risk"], R(65)))
              => Gt(result.rec.overall_score, R(70))
        /\ TargetUnhindered =>
              /\ Gt(result.rec.target_price, result.rec.current_price)
              /\ Gt(result.rec.risk_reward_ratio, R(0))

\* A completion with rising momentum, a mild drawdown and nothing in the
\* target's way: everything the scenario expects holds.
C18_Witness ==
    /\ Returned
    /\ Bullish
    /\ TargetUnhindered
    /\ \A c \in Components : Gt(scores[c], R(65))
    /\ Gt(result.rec.overall_score, R(70))
    /\ Gt(result.rec.target_price, result.rec.current_price)
    /\ Gt(result.rec.risk_reward_ratio, R(0))

(***************************************************************************)
(* Properties of the use of the ML predictions                             *)
(***************************************************************************)
\* The keys of the bundle's predictions that do not exceed the horizon.
KeysWithinHorizon == {k \in DOMAIN data.d.ml_predictions.at : k <= horizon}

\* The largest of them.
LargestKeyWithinHorizon ==
    CHOOSE k \in KeysWithinHorizon : \A j \in KeysWithinHorizon : j <= k

\* clamp(x, 0, 100)
ClampTo100(x) == IF Lt(x, R(0)) THEN R(0) ELSE IF Gt(x, R(100)) THEN R(100) ELSE x

\* C19: the ML score is 50 without predictions, without a key <= horizon
\* and for a current price <= 0; otherwise it is
\* clamp(50 + expected_return * 250 * confidence, 0, 100) for the entry of
\* the largest key <= horizon, with expected_return =
\* (predicted_price - current_price) / current_price.
C19_MLScoreFormula ==
    Returned =>
        LET cp == data.d.current_price
        IN  IF KeysWithinHorizon = {} \/ Le(cp, R(0))
            THEN scores["ml_prediction"] = R(50)
            ELSE LET entry == data.d.ml_predictions.at[LargestKeyWithinHorizon]
                 IN  {"predicted_price", "confidence"} \subseteq DOMAIN entry =>
                        scores["ml_prediction"] =
                            ClampTo100(
                                Add(R(50),
                                    Mul(Mul(Div(Sub(entry["predicted_price"], cp),
                                                cp),
                                            R(250)),
                                        entry["confidence"])))

\* Predictions for 7 and 30 days at horizon 30: the 30-day entry (-30%)
\* decides, and its raw score of -25 is clamped to 0; the 7-day entry
\* (+4%) would have given 60.
C19_Witness ==
    /\ Returned
    /\ data.d.ml_predictions.order = <<7, 30>>
    /\ data.d.current_price = R(100)
    /\ LargestKeyWithinHorizon = 30
    /\ scores["ml_prediction"] = R(0)

\* The target price the bundle would get if the ML step started from
\* after_ml: the projection step, the tilt by the overall score and the
\* resistance cap.
TargetFrom(after_ml) ==
    _target_cap(
        _target_tilt(
            _target_projection(after_ml, data.d.projections, horizon),
            result.rec.overall_score),
        data.d.technical_analysis, result.rec.overall_score)

\* C20: the target price averages in the predicted price of the entry the
\* ML score uses, the one of the largest key <= horizon, and no ML price
\* when no key is <= horizon.
C20_TargetUsesScoredEntry ==
    Returned =>
        LET cp == data.d.current_price
        IN  result.rec.target_price =
                IF KeysWithinHorizon = {} THEN TargetFrom(cp)
                ELSE TargetFrom(
                         Div(Add(cp,
                                 Get(data.d.ml_predictions.at[LargestKeyWithinHorizon],
                                     "predicted_price", cp)),
                             R(2)))

\* Only a 60-day prediction at horizon 30: the ML score is the neutral 50,
\* and the target price has the 60-day price of 90 averaged in.
C20_Witness ==
    /\ Returned
    /\ data.d.ml_predictions.order = <<60>>
    /\ KeysWithinHorizon = {}
    /\ data.d.current_price = R(100)
    /\ scores["ml_prediction"] = R(50)
    /\ result.rec.target_price = TargetFrom(R(95))
    /\ result.rec.target_price # TargetFrom(R(100))

(***************************************************************************)
(* C21: the resistance level that caps the target price                    *)
(***************************************************************************)
\* The support_resistance section of the gathered report.
ReportLevels == Get(data.d.technical_analysis.d, "support_resistance", EmptyDict)

\* The detected highs above the close, of which the smallest is the nearest
\* resistance.
Above(peaks, close) == {r \in peaks : r > close}

NearestAbove(peaks, close) ==
    CHOOSE r \in Above(peaks, close) : \A x \in Above(peaks, close) : r <= x

\* The sets of detected highs from which find_support_resistance produces
\* the levels of the gathered report.
DetectedPeaks ==
    {pk \in PeakSets :
        \E tr \in TroughSets, close \in StartPrices \cup {p + d : p \in StartPrices, d \in TickDeltas} :
            find_support_resistance(pk, tr, close) = ReportLevels}

\* C21: when the overall score is above 50 and resistance levels exist, the
\* level that caps the target price at 95%, resistance_levels[0], is the
\* smallest detected level above the report's price, for every set of
\* detected levels that find_support_resistance turns into the report's
\* levels.
C21_CapAtNearestResistance ==
    (/\ Returned
     /\ Truthy(data.d.technical_analysis)
     /\ Gt(result.rec.overall_score, R(50))
     /\ Len(Get(ReportLevels, "resistance_levels", <<>>)) > 0)
    => \A pk \in DetectedPeaks :
           LET close == CHOOSE c \in 0..1000 : R(c) = ReportLevels["current_price"]
           IN  /\ ReportLevels["resistance_levels"][1] = R(NearestAbove(pk, close))
               /\ Le(result.rec.target_price,
                     Mul(R(NearestAbove(pk, close)), Frac(95, 100)))

\* Four highs above the close of 100 (101, 104, 110, 120): the report keeps
\* the three largest, so the cap is taken at 104 and the target price lies
\* above 95% of the nearest resistance, 101.
C21_Witness ==
    /\ Returned
    /\ Gt(result.rec.overall_score, R(50))
    /\ ReportLevels["current_price"] = R(100)
    /\ ReportLevels["resistance_levels"] = <<R(104), R(110), R(120)>>
    /\ {101, 104, 110, 120} \in DetectedPeaks
    /\ Gt(result.rec.target_price, Mul(R(101), Frac(95, 100)))

(***************************************************************************)
(* C22: the technical score against its reference rules                    *)
(***************************************************************************)
\* x rounded to the nearest integer (no input below lies halfway).
RoundNearest(x) ==
    IF Lt(x, R(0)) THEN -Trunc(Sub(Frac(1, 2), x))
    ELSE Trunc(Add(x, Frac(1, 2)))

\* The reference rules for a report with all four sections: 50; RSI below
\* 30 +20, above 70 -20, within [40, 60] +5; MACD above its signal +15,
\* otherwise -10; trend up +round(strength * 20), down -round(strength *
\* 20); nearest resistance more than 5% above the price +10, less than 2%
\* above -5; nearest support less than 2% below +5; clamped to [0, 100].
TechnicalReference(ta) ==
    LET rsi == ta.basic_indicators.RSI
        macd == ta.basic_indicators.MACD
        signal == ta.basic_indicators.MACD_Signal
        trend == ta.trend_analysis
        sr == ta.support_resistance
        price == sr.current_price
        res == sr.resistance_levels
        sup == sr.support_levels
        rsi_pts == IF Lt(rsi, R(30)) THEN 20
                   ELSE IF Gt(rsi, R(70)) THEN -20
                   ELSE IF Ge(rsi, R(40)) /\ Le(rsi, R(60)) THEN 5 ELSE 0
        macd_pts == IF Gt(macd, signal) THEN 15 ELSE -10
        trend_pts == IF trend.direction = "up"
                     THEN RoundNearest(Mul(trend.strength, R(20)))
                     ELSE IF trend.direction = "down"
                     THEN -RoundNearest(Mul(trend.strength, R(20)))
                     ELSE 0
        res_pts == IF res = <<>> THEN 0
                   ELSE IF Gt(res[1], Mul(price, Frac(105, 100))) THEN 10
                   ELSE IF Lt(res[1], Mul(price, Frac(102, 100))) THEN -5
                   ELSE 0
        sup_pts == IF sup = <<>> THEN 0
                   ELSE IF Gt(sup[1], Mul(price, Frac(98, 100))) THEN 5
                   ELSE 0
    IN  ClampTo100(R(50 + rsi_pts + macd_pts + trend_pts + res_pts + sup_pts))

\* C22: for every non-empty technical report _calculate_technical_score
\* returns the value of its reference rules.
C22_TechnicalScoreReference ==
    (Returned /\ Truthy(data.d.technical_analysis)) =>
        scores["technical"] = TechnicalReference(data.d.technical_analysis.d)

\* RSI 50, MACD at its signal, trend up with strength 0.88 and no levels:
\* strength * 20 = 17.6 counts as int(17.6) = 17, so the score is
\* 50 + 5 - 10 + 17 = 62 where the reference rules give 63.
C22_Witness ==
    /\ Returned
    /\ Truthy(data.d.technical_analysis)
    /\ data.d.technical_analysis.d.basic_indicators.RSI = R(50)
    /\ data.d.technical_analysis.d.basic_indicators.MACD = R(0)
    /\ data.d.technical_analysis.d.trend_analysis =
           [direction |-> "up", strength |-> Frac(88, 100)]
    /\ ReportLevels["resistance_levels"] = <<>>
    /\ ReportLevels["support_levels"] = <<>>
    /\ scores["technical"] = R(62)
    /\ TechnicalReference(data.d.technical_analysis.d) = R(63)

(***************************************************************************)
(* C23, C24: the stop loss                                                 *)
(***************************************************************************)
\* The larger of two numbers.
Larger(a, b) == IF Ge(a, b) THEN a ELSE b

\* The smaller of two numbers.
Smaller(a, b) == IF Le(a, b) THEN a ELSE b

\* current_price * (1 - 2 * annual_volatility / sqrt(252)) of the bundle.
VolatilityStop ==
    Mul(data.d.current_price,
        Sub(R(1), Div(Mul(R(2), data.d.volatility), Sqrt252)))

\* The support levels of the bundle's report, none without a report.
SupportLevels ==
    IF Truthy(data.d.technical_analysis)
    THEN Get(ReportLevels, "support_levels", <<>>)
    ELSE <<>>

\* 98% of the nearest support, or 90% of the current price when none.
SupportStop ==
    IF SupportLevels # <<>> THEN Mul(SupportLevels[1], Frac(98, 100))
    ELSE Mul(data.d.current_price, Frac(9, 10))

C24_StopLossBelowPrice ==
    (/\ Returned
     /\ Gt(data.d.current_price, R(0))
     /\ Ge(data.d.volatility, R(0))
     /\ \A i \in 1..Len(SupportLevels) :
            Lt(SupportLevels[i], data.d.current_price))
    => /\ Gt(result.rec.stop_loss, R(0))
       /\ Le(result.rec.stop_loss, data.d.current_price)
       /\ Lt(result.rec.overall_score, R(30)) =>
              /\ result.rec.stop_loss = Larger(VolatilityStop, SupportStop)
              /\ Lt(result.rec.stop_loss,
                    Mul(data.d.current_price, Frac(115, 100)))

\* An overall score below 30 with a support at 99 under the price of 100:
\* the stop loss is the support stop, 97.02, untouched by the cap at 115.
C24_Witness ==
    /\ Returned
    /\ data.d.current_price = R(100)
    /\ Ge(data.d.volatility, R(0))
    /\ SupportLevels = <<R(99)>>
    /\ Lt(result.rec.overall_score, R(30))
    /\ result.rec.stop_loss = Frac(9702, 100)

(***************************************************************************)
(* C25: the target price of a sell-side recommendation                     *)
(***************************************************************************)
SellSide == {"WEAK SELL", "SELL", "STRONG SELL"}

\* The current price averaged with the ML price and the projected price
\* the bundle holds, before any adjustment.
BlendedPrice ==
    _target_projection(
        _target_ml(data.d.current_price, data.d.ml_predictions,
                   data.d.current_price, horizon),
        data.d.projections, horizon)

\* C25: the target price of a sell-side recommendation is not held to the
\* current price: it is the blended price tilted by
\* 1 + (overall_score - 50) / 100 * 0.2 and nothing else, so it lies above
\* the current price whenever the blended price lies far enough above it.
C25_TargetDirectionNotEnforced ==
    (Returned /\ result.rec.action \in SellSide) =>
        result.rec.target_price =
            Mul(BlendedPrice,
                Add(R(1), Div(Sub(result.rec.overall_score, R(50)), R(500))))

\* A SELL at 100 whose nearest ML prediction is 130: the blended price is
\* 115 and the target price lies above 100.
C25_Witness ==
    /\ Returned
    /\ result.rec.action = "SELL"
    /\ data.d.current_price = R(100)
    /\ BlendedPrice = R(115)
    /\ Gt(result.rec.target_price, R(100))

(***************************************************************************)
(* C26: the forecasts the gathering step asks for and keeps                *)
(***************************************************************************)
CandidateSet == {CandidateHorizons[i] : i \in 1..Len(CandidateHorizons)}

\* The forecaster is being asked, and only at a candidate within the
\* horizon; the stored keys are candidates within the horizon, in
\* increasing order, each with a non-empty record; below a horizon of 7
\* nothing is stored and the ML score is 50.
ForecastsWithinHorizon ==
    /\ pc = "ml" =>
           /\ ml_idx \in 1..Len(CandidateHorizons)
           /\ CandidateHorizons[ml_idx] <= horizon
           /\ \A i \in 1..Len(ml_predictions.order) :
                  ml_predictions.order[i] < CandidateHorizons[ml_idx]
    /\ DOMAIN ml_predictions.at =
           {ml_predictions.order[i] : i \in 1..Len(ml_predictions.order)}
    /\ \A i \in 1..Len(ml_predictions.order) :
           /\ ml_predictions.order[i] \in CandidateSet
           /\ ml_predictions.order[i] <= horizon
           /\ ml_predictions.at[ml_predictions.order[i]] # EmptyDict
           /\ \A j \in 1..(i - 1) :
                  ml_predictions.order[j] < ml_predictions.order[i]
    /\ (pc = "done" /\ horizon < 7) => ml_predictions = EmptyPredictions
    /\ (Returned /\ horizon < 7) =>
           /\ data.d.ml_predictions = EmptyPredictions
           /\ scores["ml_prediction"] = R(50)

\* A pass of the loop stores its forecast under the candidate it asked
\* for or, when the forecast failed, leaves the dict as it is; either way
\* the loop goes on to the next candidate within the horizon.
FailedForecastContinues ==
    (pc = "ml" /\ ml_idx' # ml_idx) =>
        /\ ml_idx' = ml_idx + 1
        /\ \/ ml_predictions' = ml_predictions
           \/ /\ ml_predictions'.order =
                     Append(ml_predictions.order, CandidateHorizons[ml_idx])
              /\ \A k \in DOMAIN ml_predictions.at :
                     ml_predictions'.at[k] = ml_predictions.at[k]
        /\ (/\ ml_idx < Len(CandidateHorizons)
            /\ CandidateHorizons[ml_idx + 1] <= horizon) => pc' = "ml"

\* C26: the gathering step asks the forecaster only at the candidate
\* horizons 7, 14, 30, 60, 90 that are <= time_horizon_days, in increasing
\* order, and stores only non-empty results: every key of ml_predictions
\* is a candidate <= the horizon; a failed forecast at one horizon does not
\* keep the later ones from being asked; for a horizon below 7
\* ml_predictions is empty and the ML score is exactly 50.
C26_ForecastsAtCandidateHorizons ==
    []ForecastsWithinHorizon /\ [][FailedForecastContinues]_vars

\* Horizon 14: the 7-day forecast failed, the 14-day forecast was still
\* asked for and stored.
C26_Witness ==
    /\ pc = "done"
    /\ horizon = 14
    /\ ml_predictions.order = <<14>>
    /\ ml_predictions.at[14] # EmptyDict

(***************************************************************************)
(* C27: the order of the reasoning sentences                               *)
(***************************************************************************)
\* The bullish and the bearish sentence of each position: technical,
\* ml_prediction, momentum, risk, volume, RSI call-out.
Sentences ==
    << <<"Strong technical indicators support upward movement",
         "Technical indicators suggest downward pressure">>,
       <<"Machine learning models predict positive price movement",
         "ML models indicate potential price decline">>,
       <<"Strong positive momentum in price and volume",
         "Negative momentum suggests caution">>,
       <<"Favorable risk-adjusted returns profile",
         "Higher risk profile requires careful position sizing">>,
       <<"Strong volume support confirms price movement",
         "Weak volume may limit price movement">>,
       <<"RSI shows oversold conditions - potential buying opportunity",
         "RSI indicates overbought conditions - consider profit taking">> >>

\* The position a sentence belongs to, 0 for any other sentence.
PositionOf(sentence) ==
    IF \E p \in 1..6 : sentence \in {Sentences[p][1], Sentences[p][2]}
    THEN CHOOSE p \in 1..6 : sentence \in {Sentences[p][1], Sentences[p][2]}
    ELSE 0

Said(sentence) ==
    \E i \in 1..Len(result.rec.reasoning) : result.rec.reasoning[i] = sentence

\* The thresholds of the five component positions.
UpperThreshold(p) == IF p = 1 THEN 65 ELSE 60

LowerThreshold(p) == IF p = 1 THEN 35 ELSE 40

ComponentAt ==
    <<"technical", "ml_prediction", "momentum", "risk", "volume">>

\* The RSI the call-out looks at: 50 without a report or a reading.
CalloutRSI ==
    IF Truthy(data.d.technical_analysis)
    THEN Get(Get(data.d.technical_analysis.d, "basic_indicators", EmptyDict),
             "RSI", R(50))
    ELSE R(50)

\* C27: the reasoning holds between 1 and 6 sentences; unless it is the
\* fallback alone, its sentences come in the order technical,
\* ml_prediction, momentum, risk, volume, RSI call-out with at most one
\* sentence per position: the bullish one exactly when the score is above
\* the upper threshold, the bearish one exactly when it is below the lower
\* one, and the RSI call-out exactly when the RSI is below 30 or above 70.
C27_ReasoningInOrder ==
    Returned =>
        LET reasoning == result.rec.reasoning
        IN  /\ Len(reasoning) \in 1..6
            /\ \/ reasoning = <<"Mixed signals suggest a neutral stance">>
               \/ /\ \A i \in 1..Len(reasoning) : PositionOf(reasoning[i]) # 0
                  /\ \A i \in 1..Len(reasoning) : \A j \in 1..(i - 1) :
                         PositionOf(reasoning[j]) < PositionOf(reasoning[i])
            /\ \A p \in 1..5 :
                  /\ Said(Sentences[p][1]) <=>
                         Gt(scores[ComponentAt[p]], R(UpperThreshold(p)))
                  /\ Said(Sentences[p][2]) <=>
                         Lt(scores[ComponentAt[p]], R(LowerThreshold(p)))
            /\ Said(Sentences[6][1]) <=> Lt(CalloutRSI, R(30))
            /\ Said(Sentences[6][2]) <=> Gt(CalloutRSI, R(70))

\* Six sentences, bullish and bearish ones mixed, closed by the RSI
\* call-out.
C27_Witness ==
    /\ Returned
    /\ Len(result.rec.reasoning) = 6
    /\ \E p \in 1..5 : Said(Sentences[p][1])
    /\ \E p \in 1..5 : Said(Sentences[p][2])
    /\ PositionOf(result.rec.reasoning[6]) = 6

(***************************************************************************)
(* C28: the weights across invocations                                     *)
(***************************************************************************)
\* C28: whatever the caller wrote into the recommendations returned so
\* far, weights_used and component_scores included, the weights an
\* invocation applies are 0.35, 0.25, 0.20, 0.10 and 0.10, and they are the
\* weights its recommendation reports.
C28_WeightsImmutable ==
    /\ pc = "gathered" => weights = InitialWeights
    /\ (Returned /\ result.rec.component_scores = scores) =>
           result.rec.overall_score = _weighted_score(scores, InitialWeights)

\* The caller set weights_used['technical'] of an earlier recommendation
\* to 0; the next invocation scored its bundle with a technical weight of
\* 0 and reports an overall score that is not the one of the initial
\* weights.
C28_Witness ==
    /\ Returned
    /\ weights = [InitialWeights EXCEPT !["technical"] = R(0)]
    /\ result.rec.weights_used = weights
    /\ result.rec.component_scores = scores
    /\ result.rec.overall_score = _weighted_score(scores, weights)
    /\ result.rec.overall_score # _weighted_score(scores, InitialWeights)

(***************************************************************************)
(* C29: the risk score against its reference rules                         *)
(***************************************************************************)
\* The growth of 1 over the first i returns.
RECURSIVE Growth(_, _)
Growth(returns, i) ==
    IF i = 0 THEN R(1) ELSE Mul(Growth(returns, i - 1), Add(R(1), returns[i]))

\* The relative distance of the growth at i below its highest value so far.
DrawdownAt(returns, i) ==
    LET peak == CHOOSE g \in {Growth(returns, j) : j \in 1..i} :
                    \A j \in 1..i : Ge(g, Growth(returns, j))
    IN  Div(Sub(Growth(returns, i), peak), peak)

\* The deepest drawdown of a return series, NaN for an empty one.
DeepestDrawdown(returns) ==
    IF returns = <<>> THEN NaN
    ELSE CHOOSE d \in {DrawdownAt(returns, i) : i \in 1..Len(returns)} :
             \A i \in 1..Len(returns) : Le(d, DrawdownAt(returns, i))

\* The reference rules: 50; volatility below 0.2 +10, above 0.5 -15;
\* Sharpe ratio above 1.0 +20, else above 0.5 +10, else below 0 -20; a
\* deepest drawdown better than -10% +10, worse than -30% -15; clamped to
\* [0, 100].
RiskReference(volatility, sharpe_ratio, max_drawdown) ==
    LET vol_pts == IF Lt(volatility, Frac(20, 100)) THEN 10
                   ELSE IF Gt(volatility, Frac(50, 100)) THEN -15 ELSE 0
        sharpe_pts == IF Gt(sharpe_ratio, R(1)) THEN 20
                      ELSE IF Gt(sharpe_ratio, Frac(50, 100)) THEN 10
                      ELSE IF Lt(sharpe_ratio, R(0)) THEN -20 ELSE 0
        dd_pts == IF Gt(max_drawdown, Frac(-10, 100)) THEN 10
                  ELSE IF Lt(max_drawdown, Frac(-30, 100)) THEN -15 ELSE 0
    IN  ClampTo100(R(50 + vol_pts + sharpe_pts + dd_pts))

\* C29: the risk score of every recommendation is the value of its
\* reference rules on the bundle's volatility, Sharpe ratio and returns.
C29_RiskScoreReference ==
    Returned =>
        scores["risk"] = RiskReference(data.d.volatility, data.d.sharpe_ratio,
                                       DeepestDrawdown(data.d.returns))

\* Volatility 0.18, Sharpe ratio 1.2 and two returns of -35% (a deepest
\* drawdown of -35%): 50 + 10 + 20 - 15 = 65.
C29_Witness ==
    /\ Returned
    /\ data.d.volatility = Frac(18, 100)
    /\ data.d.sharpe_ratio = Frac(12, 10)
    /\ data.d.returns = <<Frac(-35, 100), Frac(-35, 100)>>
    /\ DeepestDrawdown(data.d.returns) = Frac(-35, 100)
    /\ scores["risk"] = R(65)

(***************************************************************************)
(* C30: the volume score against its reference rules                       *)
(***************************************************************************)
\* The volume_analysis section of the bundle's report, empty when the
\* report has none.
ReportVolume == Get(data.d.technical_analysis.d, "volume_analysis", EmptyDict)

\* The reference rules: 50; only for a mean volume above 0, a volume of
\* more than 2.0 times the mean +15, else more than 1.5 times +10, else
\* less than 0.5 times -10; a volume breakout +20; a bullish OBV trend +10,
\* a bearish one -10; clamped to [0, 100].
VolumeReference(current_volume, avg_volume, breakout, obv_trend) ==
    LET ratio_pts ==
            IF ~Gt(avg_volume, R(0)) THEN 0
            ELSE IF Gt(current_volume, Mul(R(2), avg_volume)) THEN 15
            ELSE IF Gt(current_volume, Mul(Frac(3, 2), avg_volume)) THEN 10
            ELSE IF Lt(current_volume, Mul(Frac(1, 2), avg_volume)) THEN -10
            ELSE 0
        breakout_pts == IF breakout THEN 20 ELSE 0
        obv_pts == CASE obv_trend = "bullish" -> 10
                     [] obv_trend = "bearish" -> -10
                     [] OTHER -> 0
    IN  ClampTo100(R(50 + ratio_pts + breakout_pts + obv_pts))

\* C30: the volume score of every recommendation is the value of its
\* reference rules on the bundle's volumes and the report's volume
\* analysis.
C30_VolumeScoreReference ==
    Returned =>
        scores["volume"] =
            VolumeReference(data.d.current_volume, data.d.avg_volume,
                            Get(ReportVolume, "volume_breakout", FALSE),
                            Get(ReportVolume, "obv_trend", "neutral"))

\* A volume of 1.8 times its mean with a breakout and a bullish OBV trend:
\* 50 + 10 + 20 + 10 = 90.
C30_Witness ==
    /\ Returned
    /\ data.d.current_volume = R(1800)
    /\ data.d.avg_volume = R(1000)
    /\ ReportVolume["volume_breakout"]
    /\ ReportVolume["obv_trend"] = "bullish"
    /\ scores["volume"] = R(90)

=============================================================================
